---- MODULE Spec2Model ----
(***************************************************************************)
(* A model of the church-management application: the generic repository    *)
(* (src/src/repositories/base.py), the attendance, member and event        *)
(* repositories and services built on it, and the record definitions       *)
(* (src/src/models) whose validators run when a record is constructed.     *)
(*                                                                         *)
(* A collection of the document store is a function from the identities    *)
(* the store has assigned (1, 2, ...; an identity is never reused) to      *)
(* documents; a document is a function from field names to values.  An     *)
(* optional value is None (the empty tuple) or Some(v) (the tuple <<v>>).  *)
(* A date is the tuple <<year, month, day>>, a time <<hour, minute>>, and  *)
(* a string that the code inspects character by character is the tuple of  *)
(* its character codes.  A specification tracks the fields of a document   *)
(* that its drafts and patches carry.                                      *)
(***************************************************************************)
EXTENDS Integers, Sequences, FiniteSets, TLC

VARIABLES
    attendance,   \* the "attendance" collection
    attNext,      \* the next identity the store assigns in "attendance"
    members,      \* the "members" collection
    memNext,      \* the next identity the store assigns in "members"
    events,       \* the "calendar_events" collection
    evNext,       \* the next identity the store assigns in "calendar_events"
    users,        \* the "users" collection
    userNext,     \* the next identity the store assigns in "users"
    calls,        \* the service calls in flight: where each is, and what it holds
    tokens,       \* the bearer tokens issued so far, each still in a client's hands
    now,          \* the clock read by get_current_date
    last          \* the last call: its name, its arguments, what it raised or returned

vars == <<attendance, attNext, members, memNext, events, evNext, users, userNext, calls,
          tokens, now, last>>

None == <<>>
Some(v) == <<v>>
NoError == ""

(***************************************************************************)
(* Bounds of the model.                                                    *)
(***************************************************************************)
MaxAttendance == 2
MaxSummaryDocs == 3
MaxMembers == 2
MaxClock == 2
MaxLimit == 2
MaxEvents == 1
MaxPatchDocs == 1
MaxUsers == 2
MaxCalls == 2
MaxIdentity == 3
MaxStatusDocs == 2
MaxQueryEvents == 2
MaxTokenUsers == 1
MaxTokens == 3

(***************************************************************************)
(* Dates and their ISO text.                                               *)
(***************************************************************************)
\* datetime.date's ordering: by year, then month, then day
DateLt(a, b) ==
    \/ a[1] < b[1]
    \/ a[1] = b[1] /\ a[2] < b[2]
    \/ a[1] = b[1] /\ a[2] = b[2] /\ a[3] < b[3]

DateLeq(a, b) == a = b \/ DateLt(a, b)

Digit(n) == 48 + n
Dash == 45

IsoFormatUnpadded(d) ==
    LET num(n) == IF n >= 10 THEN <<Digit(n \div 10), Digit(n % 10)>> ELSE <<Digit(n)>>
    IN  <<Digit(d[1] \div 1000), Digit((d[1] \div 100) % 10),
          Digit((d[1] \div 10) % 10), Digit(d[1] % 10), Dash>>
        \o num(d[2]) \o <<Dash>> \o num(d[3])

\* date.isoformat(), which model_dump(mode="json") applies to a date: YYYY-MM-DD
IsoFormat(d) ==
    <<Digit(d[1] \div 1000), Digit((d[1] \div 100) % 10),
      Digit((d[1] \div 10) % 10), Digit(d[1] % 10), Dash,
      Digit(d[2] \div 10), Digit(d[2] % 10), Dash,
      Digit(d[3] \div 10), Digit(d[3] % 10)>>

\* the date a record type parses from the stored YYYY-MM-DD text
ParseDate(s) ==
    <<(s[1] - 48) * 1000 + (s[2] - 48) * 100 + (s[3] - 48) * 10 + (s[4] - 48),
      (s[6] - 48) * 10 + (s[7] - 48),
      (s[9] - 48) * 10 + (s[10] - 48)>>

\* the store's comparison of two strings ($gte, $lte, sort): code by code, a
\* proper prefix first
RECURSIVE StrLtFrom(_, _, _)
StrLtFrom(a, b, i) ==
    IF i > Len(b) THEN FALSE
    ELSE IF i > Len(a) THEN TRUE
    ELSE IF a[i] # b[i] THEN a[i] < b[i]
    ELSE StrLtFrom(a, b, i + 1)

StrLt(a, b) == StrLtFrom(a, b, 1)

StrLeq(a, b) == a = b \/ StrLt(a, b)

(***************************************************************************)
(* The generic repository.                                                 *)
(***************************************************************************)
\* collection.insert_one: the document under a fresh identity
InsertOne(coll, id, doc) == [i \in DOMAIN coll \cup {id} |-> IF i = id THEN doc ELSE coll[i]]

\* a $set that only adds the fields the document lacks and overwrites none
SetFieldsMissingOnly(doc, patch) ==
    [f \in DOMAIN doc \cup DOMAIN patch |-> IF f \in DOMAIN doc THEN doc[f] ELSE patch[f]]

\* collection.update_one({"_id": id}, {"$set": patch}): the fields of the patch
\* overwrite the document's, the others stay
SetFields(doc, patch) ==
    [f \in DOMAIN doc \cup DOMAIN patch |-> IF f \in DOMAIN patch THEN patch[f] ELSE doc[f]]

UpdateOne(coll, id, patch) ==
    IF id \in DOMAIN coll THEN [coll EXCEPT ![id] = SetFields(coll[id], patch)] ELSE coll

\* collection.delete_one({"_id": id})
DeleteOne(coll, id) == [i \in DOMAIN coll \ {id} |-> coll[i]]

\* BaseRepository.update's answer.  Every update schema derives from
\* TimestampModel, whose model_post_init assigns updated_at: the assignment
\* marks the field as set, so the dumped patch is never empty and always
\* carries a fresh updated_at.  update_one therefore modifies the document
\* whenever the identity matches one, and update returns None exactly when
\* it matches none.
UpdateFound(coll, id) == id \in DOMAIN coll

(***************************************************************************)
(* Attendance: the record definitions.                                     *)
(***************************************************************************)
\* model_dump(mode="json") of an AttendanceCreate: the date becomes its ISO text
AttendanceDump(draft) ==
    [f \in DOMAIN draft |->
        IF f = "attendance_date" THEN IsoFormat(draft[f]) ELSE draft[f]]

\* model_dump(exclude_unset=True, mode="json") of an AttendanceUpdate
AttendancePatchDump(patch) ==
    [f \in DOMAIN patch |->
        IF f = "attendance_date" THEN IsoFormat(patch[f]) ELSE patch[f]]

\* the fields AttendanceInDB declares (AttendanceBase, TimestampModel, id)
AttendanceInDBFields ==
    {"id", "member_id", "attendance_date", "attendance_type", "status", "notes",
     "recorded_by", "created_at", "updated_at"}

\* AttendanceInDB(**doc) with the identity exposed as id, as get_by_id builds
\* it: the declared fields, the date parsed from its text
AttendanceInDB(id, doc) ==
    [f \in (DOMAIN doc \cup {"id"}) \cap AttendanceInDBFields |->
        IF f = "id" THEN id
        ELSE IF f = "attendance_date" THEN ParseDate(doc[f]) ELSE doc[f]]

(***************************************************************************)
(* Attendance: the repository.                                             *)
(***************************************************************************)
\* AttendanceRepository.check_attendance_exists
CheckAttendanceExists(coll, member_id, attendance_date, attendance_type) ==
    \E i \in DOMAIN coll :
        /\ coll[i].member_id = member_id
        /\ coll[i].attendance_date = IsoFormat(attendance_date)
        /\ coll[i].attendance_type = attendance_type

\* the documents get_member_attendance_summary's $match stage lets through
SummaryMatchUnpadded(coll, member_id, start_date, end_date) ==
    {i \in DOMAIN coll :
        /\ coll[i].member_id = member_id
        /\ StrLeq(IsoFormatUnpadded(start_date), coll[i].attendance_date)
        /\ StrLeq(coll[i].attendance_date, IsoFormatUnpadded(end_date))}

SummaryMatch(coll, member_id, start_date, end_date) ==
    {i \in DOMAIN coll :
        /\ coll[i].member_id = member_id
        /\ StrLeq(IsoFormat(start_date), coll[i].attendance_date)
        /\ StrLeq(coll[i].attendance_date, IsoFormat(end_date))}

\* the $group stage: one result per status among the matched documents, with
\* the number of them
GroupByStatus(coll, ids) ==
    [s \in {coll[i].status : i \in ids} |-> Cardinality({i \in ids : coll[i].status = s})]

\* a total that counts the four recognized statuses only
SumRecognizedCounts(groups, keys) ==
    LET n(st) == IF st \in keys THEN groups[st] ELSE 0
    IN  n("present") + n("absent") + n("late") + n("excused")

RECURSIVE SumCounts(_, _)
SumCounts(groups, keys) ==
    IF keys = {} THEN 0
    ELSE LET k == CHOOSE x \in keys : TRUE
         IN  groups[k] + SumCounts(groups, keys \ {k})

CountOf(groups, status) == IF status \in DOMAIN groups THEN groups[status] ELSE 0

RECURSIVE Gcd(_, _)
Gcd(a, b) == IF b = 0 THEN a ELSE Gcd(b, a % b)

\* a quotient n / d as the fraction in lowest terms <<numerator, denominator>>
Ratio(n, d) == <<n \div Gcd(n, d), d \div Gcd(n, d)>>

\* (present_count / total) * 100, and 0.0 when the total is 0
AttendanceRate(present, total) ==
    IF total > 0 THEN Ratio(present * 100, total) ELSE Ratio(0, 1)

\* the loop of get_member_attendance_summary over the grouped results, and the
\* rate computed after it
SummaryOfResults(results, member_id, start_date, end_date) ==
    [member_id |-> member_id,
     start_date |-> start_date,
     end_date |-> end_date,
     total_services |-> SumCounts(results, DOMAIN results),
     present_count |-> CountOf(results, "present"),
     absent_count |-> CountOf(results, "absent"),
     late_count |-> CountOf(results, "late"),
     excused_count |-> CountOf(results, "excused"),
     attendance_rate |-> AttendanceRate(CountOf(results, "present"),
                                        SumCounts(results, DOMAIN results))]

\* AttendanceRepository.get_member_attendance_summary
RepoMemberAttendanceSummary(coll, member_id, start_date, end_date) ==
    SummaryOfResults(
        GroupByStatus(coll, SummaryMatch(coll, member_id, start_date, end_date)),
        member_id, start_date, end_date)

\* the documents get_service_attendance_summary's $match stage lets through
ServiceMatch(coll, attendance_date, attendance_type) ==
    {i \in DOMAIN coll :
        /\ coll[i].attendance_date = IsoFormat(attendance_date)
        /\ coll[i].attendance_type = attendance_type}

\* the loop of get_service_attendance_summary over the grouped results, and
\* the rate computed after it
ServiceSummaryOfResults(results, attendance_date, attendance_type) ==
    [service_date |-> attendance_date,
     service_type |-> attendance_type,
     total_members |-> SumCounts(results, DOMAIN results),
     present_members |-> CountOf(results, "present"),
     absent_members |-> CountOf(results, "absent"),
     late_members |-> CountOf(results, "late"),
     excused_members |-> CountOf(results, "excused"),
     attendance_rate |-> AttendanceRate(CountOf(results, "present"),
                                        SumCounts(results, DOMAIN results))]

\* AttendanceRepository.get_service_attendance_summary
RepoServiceAttendanceSummary(coll, attendance_date, attendance_type) ==
    ServiceSummaryOfResults(
        GroupByStatus(coll, ServiceMatch(coll, attendance_date, attendance_type)),
        attendance_date, attendance_type)

(***************************************************************************)
(* Attendance: the service.                                                *)
(***************************************************************************)
AttendanceExistsError == "Attendance record already exists for this service"

\* The service builds its answer as Attendance(id=..., ...,
\* service_time=attendance_in_db.service_time, ...): AttendanceInDB declares no
\* service_time (models/attendance.py), so reading it raises AttributeError
\* whenever the service has a record to answer with.
ServiceTimeError == "AttributeError: 'AttendanceInDB' object has no attribute 'service_time'"

\* Attendance(...) built from an AttendanceInDB, as every method of the service
\* builds its answer: the error it raises
AttendanceResponseError(record) ==
    IF "service_time" \in AttendanceInDBFields THEN NoError ELSE ServiceTimeError

\* AttendanceService.create_attendance
CreateAttendance(draft) ==
    IF CheckAttendanceExists(attendance, draft.member_id, draft.attendance_date,
                             draft.attendance_type)
    THEN /\ last' = [op |-> "create_attendance", arg |-> draft,
                     err |-> AttendanceExistsError, res |-> None]
         /\ UNCHANGED <<attendance, attNext>>
    ELSE /\ attendance' = InsertOne(attendance, attNext, AttendanceDump(draft))
         /\ attNext' = attNext + 1
         /\ LET record == AttendanceInDB(attNext, attendance'[attNext])
                e == AttendanceResponseError(record)
            IN  last' = [op |-> "create_attendance", arg |-> draft, err |-> e,
                         res |-> IF e = NoError THEN Some(record) ELSE None]

\* AttendanceService.update_attendance
UpdateAttendance(id, patch) ==
    /\ attendance' = UpdateOne(attendance, id, AttendancePatchDump(patch))
    /\ LET e == IF UpdateFound(attendance, id)
                THEN AttendanceResponseError(AttendanceInDB(id, attendance'[id]))
                ELSE NoError
       IN  last' = [op |-> "update_attendance", id |-> id, arg |-> patch, err |-> e,
                    res |-> IF UpdateFound(attendance, id) /\ e = NoError
                            THEN Some(AttendanceInDB(id, attendance'[id])) ELSE None]
    /\ UNCHANGED attNext

\* date.today() when the clock, counted in days, reads n: 28 February 2024
\* and the days after it
DateOfDay(n) == IF n <= 1 THEN <<2024, 2, 28 + n>> ELSE <<2024, 3, n - 1>>

FutureDateError == "Attendance date cannot be in the future"

AttendanceDateRejectedFromToday(v, today) == DateLeq(today, v)

\* validate_attendance_date of AttendanceBase and of AttendanceUpdate, for a
\* date v that is not None: v > date.today()
AttendanceDateRejected(v, today) == DateLt(today, v)

\* POST /api/attendance/: the body becomes an AttendanceCreate, or the
\* request is refused; the service is called with the model
ApiCreateAttendance(body) ==
    IF AttendanceDateRejected(body.attendance_date, DateOfDay(now))
    THEN /\ last' = [op |-> "create_attendance", arg |-> body,
                     err |-> FutureDateError, res |-> None]
         /\ UNCHANGED <<attendance, attNext>>
    ELSE CreateAttendance(body)

\* PUT /api/attendance/{attendance_id}: the body becomes an AttendanceUpdate,
\* or the request is refused; the service is called with the model
ApiUpdateAttendance(id, body) ==
    IF "attendance_date" \in DOMAIN body
       /\ AttendanceDateRejected(body.attendance_date, DateOfDay(now))
    THEN /\ last' = [op |-> "update_attendance", id |-> id, arg |-> body,
                     err |-> FutureDateError, res |-> None]
         /\ UNCHANGED <<attendance, attNext>>
    ELSE UpdateAttendance(id, body)

\* AttendanceService.delete_attendance
DeleteAttendance(id) ==
    /\ attendance' = DeleteOne(attendance, id)
    /\ last' = [op |-> "delete_attendance", id |-> id, err |-> NoError,
                res |-> id \in DOMAIN attendance]
    /\ UNCHANGED attNext

\* AttendanceService.get_member_attendance_summary
GetMemberAttendanceSummary(member_id, start_date, end_date) ==
    /\ \E data \in {RepoMemberAttendanceSummary(attendance, member_id, start_date, end_date)} :
          last' = [op |-> "get_member_attendance_summary",
                   arg |-> [member_id |-> member_id, start_date |-> start_date,
                            end_date |-> end_date],
                   err |-> NoError,
                   res |-> Some([member_id |-> data.member_id,
                                 member_name |-> "",
                                 total_services |-> data.total_services,
                                 present_count |-> data.present_count,
                                 absent_count |-> data.absent_count,
                                 late_count |-> data.late_count,
                                 excused_count |-> data.excused_count,
                                 attendance_rate |-> data.attendance_rate,
                                 period_start |-> data.start_date,
                                 period_end |-> data.end_date])]
    /\ UNCHANGED <<attendance, attNext>>

(***************************************************************************)
(* Members: the record definitions.                                        *)
(***************************************************************************)
\* the members of the MemberStatus enumeration and their values
MemberStatus ==
    [OUTREACH |-> "outreach", FIRST_TIMER |-> "first timer", MEMBER |-> "member",
     SHEPHERD |-> "shepherd", VISITOR |-> "visitor", RELOCATED |-> "relocated"]

\* TimestampModel.model_post_init: updated_at becomes the current time
PostInit(record, t) ==
    IF "updated_at" \in DOMAIN record THEN [record EXCEPT !["updated_at"] = t] ELSE record

\* datetime.isoformat (serialize_datetime), and the datetime parsed back from it
IsoDateTime(t) == <<"iso", t>>
ParseDateTime(s) == s[2]

\* model_dump(mode="json") of a member draft or patch: datetimes become text
MemberDump(model) ==
    [f \in DOMAIN model |->
        IF f \in {"created_at", "updated_at"} THEN IsoDateTime(model[f])
        ELSE IF f \in {"membership_date", "date_of_birth"} /\ model[f] # None
             THEN Some(IsoFormat(model[f][1]))
        ELSE model[f]]

MemberValidationError == "ValidationError: MemberInDB phone: Input should be a valid string"

\* what MemberInDB(**doc) raises: phone is a required string, which a stored
\* null (written by a patch that set phone to null) is not
MemberInDBError(doc) == IF doc.phone = None THEN MemberValidationError ELSE NoError

\* MemberInDB(**doc) with the identity exposed as id, built at time t
MemberInDB(id, doc, t) ==
    PostInit([f \in DOMAIN doc \cup {"id"} |->
                 IF f = "id" THEN id
                 ELSE IF f \in {"created_at", "updated_at"} THEN ParseDateTime(doc[f])
                 ELSE IF f \in {"membership_date", "date_of_birth"} /\ doc[f] # None
                      THEN Some(ParseDate(doc[f][1]))
                 ELSE doc[f]], t)

\* the fields the service copies from a MemberInDB into the Member it returns
MemberResponseArgs ==
    {"id", "first_name", "last_name", "email", "phone", "date_of_birth", "gender",
     "marital_status", "address", "city", "state", "zip_code", "country",
     "emergency_contact_name", "emergency_contact_phone", "occupation", "employer",
     "education_level", "baptism_date", "membership_date", "status", "role", "notes",
     "is_active", "created_at", "updated_at"}

\* Member(id=member_in_db.id, ...) as the service builds it at time t: a field
\* the call does not pass takes the default of MemberBase, which is None for
\* emergency_contact_relationship, ministry and first_attended
MemberResponse(record, t) ==
    PostInit([f \in DOMAIN record |->
                 IF f \in MemberResponseArgs THEN record[f] ELSE None], t)

(***************************************************************************)
(* Members: the repository.                                                *)
(***************************************************************************)
\* MemberRepository.is_email_taken, is_phone_taken (no exclude_id)
IsEmailTakenActiveOnly(coll, email) ==
    \E i \in DOMAIN coll : coll[i].email = email /\ coll[i].is_active = TRUE
IsEmailTaken(coll, email) == \E i \in DOMAIN coll : coll[i].email = email
IsPhoneTaken(coll, phone) == \E i \in DOMAIN coll : coll[i].phone = phone

\* the identities find_one({"email": email}) / find_one({"phone": phone}) may
\* answer with: any matching document
IdsByEmail(coll, email) == {i \in DOMAIN coll : coll[i].email = email}
IdsByPhone(coll, phone) == {i \in DOMAIN coll : coll[i].phone = phone}

\* MemberRepository.get_active_members: the filter of the listing
RepoActiveFilter(doc) == doc.is_active = TRUE /\ doc.status # Some(MemberStatus.RELOCATED)

\* MemberService.get_active_members: the filter of the listing
ServiceActiveFilter(doc) ==
    /\ doc.is_active = TRUE
    /\ doc.status \notin {Some(MemberStatus.RELOCATED), Some(MemberStatus.OUTREACH)}

\* the identities the two active listings answer with
RepoGetActiveMembers(coll) == {i \in DOMAIN coll : RepoActiveFilter(coll[i])}
ServiceGetActiveMembers(coll) == {i \in DOMAIN coll : ServiceActiveFilter(coll[i])}

\* MemberRepository.create (BaseRepository.create): no uniqueness check here
MemberRepoCreate(draft) ==
    /\ members' = InsertOne(members, memNext, MemberDump(draft))
    /\ memNext' = memNext + 1
    /\ last' = [op |-> "repo_create", arg |-> draft, err |-> NoError,
                res |-> Some(MemberInDB(memNext, members'[memNext], now))]

\* MemberRepository.get_by_id (BaseRepository.get_by_id)
MemberRepoGetById(id) ==
    /\ LET e == IF id \in DOMAIN members THEN MemberInDBError(members[id]) ELSE NoError
       IN  last' = [op |-> "repo_get_by_id", id |-> id, err |-> e,
                    res |-> IF id \in DOMAIN members /\ e = NoError
                            THEN Some(MemberInDB(id, members[id], now)) ELSE None]
    /\ UNCHANGED <<members, memNext>>

\* collection.find(filter_dict): the documents whose fields equal the filter's
Matches(doc, filter_dict) == \A f \in DOMAIN filter_dict : doc[f] = filter_dict[f]

\* the store's order of two values of the sort field: null first, then text
SortKeyLeq(a, b) == a = None \/ (b # None /\ StrLeq(a[1], b[1]))

\* .sort(sort_by, sort_direction): the sequences the store may answer with,
\* every matching identity once, in the order of the sort field; the store
\* promises no order among documents whose sort fields are equal
SortedOrders(coll, ids, sort_by, sort_direction) ==
    {order \in [1..Cardinality(ids) -> ids] :
        /\ \A k, l \in DOMAIN order : k # l => order[k] # order[l]
        /\ \A k, l \in DOMAIN order : k < l =>
              IF sort_direction = 1
              THEN SortKeyLeq(coll[order[k]][sort_by], coll[order[l]][sort_by])
              ELSE SortKeyLeq(coll[order[l]][sort_by], coll[order[k]][sort_by])}

Min(a, b) == IF a <= b THEN a ELSE b

\* .skip(skip).limit(limit) of an ordered answer
SkipLimit(order, skip, limit) == SubSeq(order, skip + 1, Min(skip + limit, Len(order)))

\* MemberRepository.get_many (BaseRepository.get_many), without a search term
GetMany(skip, limit, filter_dict, sort_by, sort_order) ==
    /\ \E order \in SortedOrders(members, {i \in DOMAIN members : Matches(members[i], filter_dict)},
                                  sort_by, IF sort_order = "asc" THEN 1 ELSE -1) :
          LET docs == SkipLimit(order, skip, limit)
              failed == {k \in DOMAIN docs : MemberInDBError(members[docs[k]]) # NoError}
          IN  last' = [op |-> "get_many", skip |-> skip, limit |-> limit,
                       filter_dict |-> filter_dict, sort_by |-> sort_by,
                       sort_order |-> sort_order,
                       err |-> IF failed = {} THEN NoError ELSE MemberValidationError,
                       res |-> IF failed = {}
                               THEN Some([k \in DOMAIN docs |->
                                            MemberInDB(docs[k], members[docs[k]], now)])
                               ELSE None]
    /\ UNCHANGED <<members, memNext>>

\* an update schema built at time t from the fields its caller gave: the
\* fields model_dump(exclude_unset=True) dumps are those, and updated_at,
\* which model_post_init assigns
UpdateSchema(given, t) ==
    [f \in DOMAIN given \cup {"updated_at"} |-> IF f = "updated_at" THEN t ELSE given[f]]

\* result.modified_count of update_one: 1 when the identity matches a
\* document that the $set changes
ModifiedCount(coll, id, obj_dict) ==
    IF id \in DOMAIN coll /\ SetFields(coll[id], obj_dict) # coll[id] THEN 1 ELSE 0

\* MemberRepository.update (BaseRepository.update) with a MemberUpdate built
\* now from the given fields
MemberRepoUpdate(id, given) ==
    LET obj_dict == MemberDump(UpdateSchema(given, now))
        written == DOMAIN obj_dict # {}
        read == [written |-> written, found |-> id \in DOMAIN members,
                 modified |-> ModifiedCount(members, id, obj_dict)]
    IN  /\ members' = IF written THEN UpdateOne(members, id, obj_dict) ELSE members
        /\ UNCHANGED memNext
        /\ LET answered == read.found /\ (~read.written \/ read.modified = 1)
               e == IF answered THEN MemberInDBError(members'[id]) ELSE NoError
           IN  last' = [op |-> "repo_update", id |-> id, arg |-> given, err |-> e,
                        res |-> IF answered /\ e = NoError
                                THEN Some(MemberInDB(id, members'[id], now)) ELSE None]

(***************************************************************************)
(* Members: the service.                                                   *)
(***************************************************************************)
EmailTakenError == "Email already registered"
PhoneTakenError == "Phone number already registered"
InactiveStatusError == "AttributeError: INACTIVE"

\* MemberService.create_member
CreateMember(draft) ==
    IF draft.email # None /\ IsEmailTaken(members, draft.email)
    THEN /\ last' = [op |-> "create_member", arg |-> draft, err |-> EmailTakenError,
                     res |-> None]
         /\ UNCHANGED <<members, memNext>>
    ELSE IF draft.phone # None /\ IsPhoneTaken(members, draft.phone)
    THEN /\ last' = [op |-> "create_member", arg |-> draft, err |-> PhoneTakenError,
                     res |-> None]
         /\ UNCHANGED <<members, memNext>>
    ELSE /\ members' = InsertOne(members, memNext, MemberDump(draft))
         /\ memNext' = memNext + 1
         /\ last' = [op |-> "create_member", arg |-> draft, err |-> NoError,
                     res |-> Some(MemberResponse(
                                 MemberInDB(memNext, members'[memNext], now), now))]

\* what the lookup of update_member for a patched email or phone does, given
\* the identities find_one may answer with: nothing found, or a document that
\* fails MemberInDB, or one that belongs to another member, or the member's own
LookupErrors(coll, found, id, taken) ==
    IF found = {} THEN {NoError}
    ELSE {IF MemberInDBError(coll[i]) # NoError THEN MemberInDBError(coll[i])
          ELSE IF i # id THEN taken ELSE NoError : i \in found}

PatchValue(patch, f) == IF f \in DOMAIN patch THEN patch[f] ELSE None

UpdateMemberUnchecked(id, patch) ==
    /\ members' = UpdateOne(members, id, MemberDump(patch))
    /\ LET e == IF UpdateFound(members, id) THEN MemberInDBError(members'[id]) ELSE NoError
       IN  last' = [op |-> "update_member", id |-> id, arg |-> patch, err |-> e,
                    res |-> IF UpdateFound(members, id) /\ e = NoError
                            THEN Some(MemberResponse(MemberInDB(id, members'[id], now), now))
                            ELSE None]
    /\ UNCHANGED memNext

\* MemberService.update_member
UpdateMember(id, patch) ==
    \E e1 \in (IF PatchValue(patch, "email") = None THEN {NoError}
                ELSE LookupErrors(members, IdsByEmail(members, patch.email), id,
                                  EmailTakenError)) :
    \E e2 \in (IF PatchValue(patch, "phone") = None THEN {NoError}
                ELSE LookupErrors(members, IdsByPhone(members, patch.phone), id,
                                  PhoneTakenError)) :
        IF e1 # NoError \/ e2 # NoError
        THEN /\ last' = [op |-> "update_member", id |-> id, arg |-> patch,
                         err |-> IF e1 # NoError THEN e1 ELSE e2, res |-> None]
             /\ UNCHANGED <<members, memNext>>
        ELSE UpdateMemberUnchecked(id, patch)

\* MemberService.delete_member: the patch it builds names MemberStatus.INACTIVE
DeleteMember(id) ==
    IF "INACTIVE" \notin DOMAIN MemberStatus
    THEN /\ last' = [op |-> "delete_member", id |-> id, err |-> InactiveStatusError,
                     res |-> None]
         /\ UNCHANGED <<members, memNext>>
    ELSE /\ members' = UpdateOne(members, id,
                [is_active |-> FALSE, status |-> Some(MemberStatus["INACTIVE"])])
         /\ last' = [op |-> "delete_member", id |-> id, err |-> NoError,
                     res |-> UpdateFound(members, id)]
         /\ UNCHANGED memNext

\* MemberService.get_member_by_id
GetMemberById(id) ==
    /\ LET e == IF id \in DOMAIN members THEN MemberInDBError(members[id]) ELSE NoError
       IN  last' = [op |-> "get_member_by_id", id |-> id, err |-> e,
                    res |-> IF id \in DOMAIN members /\ e = NoError
                            THEN Some(MemberResponse(MemberInDB(id, members[id], now), now))
                            ELSE None]
    /\ UNCHANGED <<members, memNext>>

(***************************************************************************)
(* Calendar events: the record definitions, their validators, the service. *)
(***************************************************************************)
Colon == 58
ColorLength == 7

\* a time of day is <<hour, minute>>
TimeLt(a, b) == a[1] < b[1] \/ (a[1] = b[1] /\ a[2] < b[2])
TimeLeq(a, b) == a = b \/ TimeLt(a, b)

\* time.isoformat(), which model_dump(mode="json") applies to a time: HH:MM:SS
IsoTimeFormat(t) ==
    <<Digit(t[1] \div 10), Digit(t[1] % 10), Colon,
      Digit(t[2] \div 10), Digit(t[2] % 10), Colon, Digit(0), Digit(0)>>

\* the time a record type parses from the stored HH:MM:SS text
ParseTime(s) == <<(s[1] - 48) * 10 + (s[2] - 48), (s[4] - 48) * 10 + (s[5] - 48)>>

\* info.data.get(f): the value of a field validated before, None when the
\* model was not given it
DataGet(data, f) == IF f \in DOMAIN data THEN data[f] ELSE None

EndDateError == "End date must be after or equal to start date"
EndTimeError == "End time must be after start time"
ColorFormatError == "Color must be a valid hex code (e.g., #FF0000)"
ColorLengthError == "String should have at most 7 characters"

EndDateRejectedNever(start_date, v) == FALSE

\* validate_end_date, for an end date v that is not None
EndDateRejected(start_date, v) == start_date # None /\ DateLt(v, start_date[1])

EndTimeRejectedOnlyBefore(start_time, v) == start_time # None /\ TimeLt(v, start_time[1])

\* validate_end_time, for an end time v that is not None
EndTimeRejected(start_time, v) == start_time # None /\ TimeLeq(v, start_time[1])

\* a colour is the sequence of its characters; v.startswith("#")
StartsWithHash(v) == Len(v) >= 1 /\ v[1] = "#"

\* the max_length of the color field, then validate_color, for a colour v
\* that is not None
ColorError(v) ==
    IF Len(v) > ColorLength THEN ColorLengthError
    ELSE IF ~StartsWithHash(v) \/ Len(v) # ColorLength THEN ColorFormatError
    ELSE NoError

\* what the construction of a CalendarEventCreate, CalendarEventUpdate or
\* CalendarEventInDB from the given fields raises, the fields validated in
\* the order of their declaration
EventValidationError(data) ==
    LET start_date == DataGet(data, "start_date")
        end_date == DataGet(data, "end_date")
        start_time == DataGet(data, "start_time")
        end_time == DataGet(data, "end_time")
        color == DataGet(data, "color")
    IN  IF end_date # None /\ EndDateRejected(start_date, end_date[1]) THEN EndDateError
        ELSE IF end_time # None /\ EndTimeRejected(start_time, end_time[1])
             THEN EndTimeError
        ELSE IF color # None THEN ColorError(color[1])
        ELSE NoError

\* model_dump(mode="json") of an event draft or patch: dates and times
\* become text
EventDump(model) ==
    [f \in DOMAIN model |->
        IF model[f] = None THEN None
        ELSE IF f \in {"start_date", "end_date"} THEN Some(IsoFormat(model[f][1]))
        ELSE IF f \in {"start_time", "end_time"} THEN Some(IsoTimeFormat(model[f][1]))
        ELSE model[f]]

\* the fields CalendarEventInDB(**doc) parses from a stored document
EventParse(doc) ==
    [f \in DOMAIN doc |->
        IF doc[f] = None THEN None
        ELSE IF f \in {"start_date", "end_date"} THEN Some(ParseDate(doc[f][1]))
        ELSE IF f \in {"start_time", "end_time"} THEN Some(ParseTime(doc[f][1]))
        ELSE doc[f]]

\* CalendarEventInDB(**doc) with the identity exposed as id
CalendarEventInDB(id, doc) ==
    [f \in DOMAIN doc \cup {"id"} |-> IF f = "id" THEN id ELSE EventParse(doc)[f]]

\* CalendarEventService.create_event, given a validated CalendarEventCreate
CreateEvent(draft) ==
    /\ events' = InsertOne(events, evNext, EventDump(draft))
    /\ evNext' = evNext + 1
    /\ LET e == EventValidationError(EventParse(events'[evNext]))
       IN  last' = [op |-> "create_event", arg |-> draft, err |-> e,
                    res |-> IF e = NoError
                            THEN Some(CalendarEventInDB(evNext, events'[evNext]))
                            ELSE None]

\* POST /api/events/: the body becomes a CalendarEventCreate, or the request
\* is refused; the service is called with the model
ApiCreateEvent(body) ==
    IF EventValidationError(body) # NoError
    THEN /\ last' = [op |-> "create_event", arg |-> body,
                     err |-> EventValidationError(body), res |-> None]
         /\ UNCHANGED <<events, evNext>>
    ELSE CreateEvent(body)

\* CalendarEventService.update_event, given a validated CalendarEventUpdate
UpdateEvent(id, patch) ==
    /\ events' = UpdateOne(events, id, EventDump(patch))
    /\ LET e == IF UpdateFound(events, id)
                THEN EventValidationError(EventParse(events'[id])) ELSE NoError
       IN  last' = [op |-> "update_event", id |-> id, arg |-> patch, err |-> e,
                    res |-> IF UpdateFound(events, id) /\ e = NoError
                            THEN Some(CalendarEventInDB(id, events'[id]))
                            ELSE None]
    /\ UNCHANGED evNext

\* PUT /api/events/{event_id}: the body becomes a CalendarEventUpdate, or the
\* request is refused; the service is called with the model
ApiUpdateEvent(id, body) ==
    IF EventValidationError(body) # NoError
    THEN /\ last' = [op |-> "update_event", id |-> id, arg |-> body,
                     err |-> EventValidationError(body), res |-> None]
         /\ UNCHANGED <<events, evNext>>
    ELSE UpdateEvent(id, body)

(***************************************************************************)
(* The AI adapters.  A value of the program is a record of one field, the  *)
(* name of its type: a text is the sequence of its characters, and an      *)
(* exception in flight is the value of type "raise".                       *)
(***************************************************************************)
PyNone == [NoneType |-> TRUE]
PyStr(s) == [str |-> s]
PyList(l) == [list |-> l]
PyDict(d) == [dict |-> d]
Raise(e) == [raise |-> e]
TypeOf(x) == CHOOSE t \in DOMAIN x : TRUE
ValueOf(x) == x[TypeOf(x)]
EmptyDict == PyDict([k \in {} |-> PyNone])

\* AIService._fallback_text
FallbackText ==
    PyStr(<<"Unable to generate AI insight at the moment. Please try again later, ",
            "or check AI configuration in settings.">>)

\* x[key] for a text key
SubKey(x, key) ==
    IF TypeOf(x) = "raise" THEN x
    ELSE IF TypeOf(x) = "dict" THEN (IF key \in DOMAIN ValueOf(x) THEN ValueOf(x)[key] ELSE Raise("KeyError"))
    ELSE Raise("TypeError")

\* x[0]
SubFirst(x) ==
    IF TypeOf(x) = "raise" THEN x
    ELSE IF TypeOf(x) = "dict" THEN Raise("KeyError")
    ELSE IF TypeOf(x) = "list" THEN (IF Len(ValueOf(x)) > 0 THEN ValueOf(x)[1] ELSE Raise("IndexError"))
    ELSE IF TypeOf(x) = "str" THEN (IF Len(ValueOf(x)) > 0 THEN PyStr(<<ValueOf(x)[1]>>) ELSE Raise("IndexError"))
    ELSE Raise("TypeError")

\* x.get(key, default)
GetKey(x, key, default) ==
    IF TypeOf(x) = "raise" THEN x
    ELSE IF TypeOf(x) = "dict" THEN (IF key \in DOMAIN ValueOf(x) THEN ValueOf(x)[key] ELSE default)
    ELSE Raise("AttributeError")

IsBlank(c) == c \in {" ", "\n", "\t"}

RECURSIVE LStrip(_)
LStrip(s) == IF s # <<>> /\ IsBlank(Head(s)) THEN LStrip(Tail(s)) ELSE s

RECURSIVE RStrip(_)
RStrip(s) ==
    IF s # <<>> /\ IsBlank(s[Len(s)]) THEN RStrip(SubSeq(s, 1, Len(s) - 1)) ELSE s

\* str.strip() on the characters of a text
Strip(s) == RStrip(LStrip(s))

\* x.strip()
StripOf(x) ==
    IF TypeOf(x) = "raise" THEN x
    ELSE IF TypeOf(x) = "str" THEN PyStr(Strip(ValueOf(x)))
    ELSE Raise("AttributeError")

UpperCase == <<"A", "B", "C", "D", "E", "F", "G", "H", "I", "J", "K", "L", "M",
               "N", "O", "P", "Q", "R", "S", "T", "U", "V", "W", "X", "Y", "Z">>
LowerCase == <<"a", "b", "c", "d", "e", "f", "g", "h", "i", "j", "k", "l", "m",
               "n", "o", "p", "q", "r", "s", "t", "u", "v", "w", "x", "y", "z">>

\* str.lower() on the characters of a text
Lower(s) ==
    [k \in DOMAIN s |->
        IF \E i \in DOMAIN UpperCase : UpperCase[i] = s[k]
        THEN LowerCase[CHOOSE i \in DOMAIN UpperCase : UpperCase[i] = s[k]]
        ELSE s[k]]

\* str.split(","): the pieces between the commas, at least one
RECURSIVE SplitFrom(_, _)
SplitFrom(s, piece) ==
    IF s = <<>> THEN <<piece>>
    ELSE IF Head(s) = "," THEN <<piece>> \o SplitFrom(Tail(s), <<>>)
    ELSE SplitFrom(Tail(s), Append(piece, Head(s)))

Split(s) == SplitFrom(s, <<>>)

\* [t.strip().lower() for t in content.split(",")], then
\* [t for t in tags if t][:5]
TagsOfContent(content) ==
    IF TypeOf(content) = "raise" THEN content
    ELSE IF TypeOf(content) # "str" THEN Raise("AttributeError")
    ELSE LET tags == [k \in DOMAIN Split(ValueOf(content)) |-> Lower(Strip(Split(ValueOf(content))[k]))]
             kept == SelectSeq(tags, LAMBDA t : t # <<>>)
         IN  PyList(SubSeq(kept, 1, Min(5, Len(kept))))

Propagate(x, fallback) == x

\* try: ... except Exception: return fallback
ExceptReturn(x, fallback) == IF TypeOf(x) = "raise" THEN fallback ELSE x

\* client.post(...): the response, or the exception of a call that got none
Post(outcome) ==
    IF outcome.kind = "response" THEN [response |-> outcome]
    ELSE Raise(outcome.kind)

\* r.raise_for_status()
RaiseForStatus(r) ==
    IF TypeOf(r) = "raise" THEN r
    ELSE IF ValueOf(r).status \div 100 = 2 THEN r
    ELSE Raise("HTTPStatusError")

\* r.json()
JsonOf(r) == IF TypeOf(r) = "raise" THEN r ELSE ValueOf(r).body

\* LocalAIService.generate
LocalAIGenerate(outcome) ==
    ExceptReturn(
        StripOf(SubKey(SubKey(SubFirst(SubKey(JsonOf(RaiseForStatus(Post(outcome))),
                                              "choices")), "message"), "content")),
        FallbackText)

\* LocalTagService.generate_tags
LocalGenerateTags(outcome) ==
    ExceptReturn(
        LET resp == Post(outcome)
        IN  IF TypeOf(resp) = "raise" THEN resp
            ELSE IF ValueOf(resp).status # 200 THEN PyList(<<>>)
            ELSE TagsOfContent(
                     GetKey(GetKey(SubFirst(GetKey(JsonOf(resp), "choices",
                                                   PyList(<<EmptyDict>>))),
                                   "message", EmptyDict), "content", PyStr(<<>>))),
        PyList(<<>>))

\* self.model.generate_content(prompt), then the text property of the answer
GenerateContentText(outcome) ==
    IF outcome.kind = "response" THEN outcome.text ELSE Raise(outcome.kind)

\* x or default
OrElse(x, default) ==
    IF TypeOf(x) = "raise" THEN x
    ELSE IF x = PyNone \/ (TypeOf(x) = "str" /\ ValueOf(x) = <<>>) THEN default
    ELSE x

\* getattr(resp, "text", None)
GetAttrText(x) == IF x = Raise("AttributeError") THEN PyNone ELSE x

\* GeminiService.generate
GeminiGenerate(outcome) ==
    IF outcome.kind = "not configured" THEN FallbackText
    ELSE ExceptReturn(OrElse(GetAttrText(GenerateContentText(outcome)), FallbackText),
                      FallbackText)

\* GeminiTagService.generate_tags
GeminiGenerateTags(outcome) ==
    IF outcome.kind = "not configured" THEN PyList(<<>>)
    ELSE ExceptReturn(TagsOfContent(OrElse(GenerateContentText(outcome), PyStr(<<>>))),
                      PyList(<<>>))

\* MemberInsightService.generate_member_insights, the backend chosen when the
\* service was built: Gemini when asked for and available, the local one
\* otherwise
GenerateMemberInsights(ai_service, gemini, local) ==
    ExceptReturn(
        IF ai_service = "gemini" /\ gemini.kind # "not configured"
        THEN GeminiGenerate(gemini)
        ELSE LocalAIGenerate(local),
        FallbackText)

\* a call of an adapter: what it was given and what came back
AdapterCall(op, arg, result) ==
    /\ last' = [op |-> op, arg |-> arg,
                err |-> IF TypeOf(result) = "raise" THEN ValueOf(result) ELSE NoError,
                res |-> result]
    /\ UNCHANGED <<attendance, attNext, members, memNext, events, evNext, now>>
    /\ UNCHANGED <<users, userNext, calls, tokens>>

(***************************************************************************)
(* Users: passwords, the repository and the service.  A user document is   *)
(* a function from field names to values; email and username are Some of a *)
(* text; created_at is the store's native date when create_user wrote it,   *)
(* and updated_at is text once an update wrote it.                          *)
(***************************************************************************)
\* bcrypt looks at the first 72 bytes of a password
BcryptMaxBytes == 72

\* password_bytes[:72] of an ASCII password
Truncate(password) ==
    IF Len(password) > BcryptMaxBytes THEN SubSeq(password, 1, BcryptMaxBytes) ELSE password

\* UserService.get_password_hash with the salt gensalt drew
GetPasswordHash(password, salt) == <<"$2b$", salt, Truncate(password)>>

\* a check that accepts every password
VerifyAnyPassword(plain_password, hashed_password) == TRUE

\* UserService.verify_password: bcrypt.checkpw, False for a text that is no hash
VerifyPassword(plain_password, hashed_password) ==
    /\ Len(hashed_password) = 3
    /\ hashed_password[1] = "$2b$"
    /\ hashed_password[3] = Truncate(plain_password)

\* a datetime as the store holds it natively
BsonDate(t) == <<"date", t>>

\* UserRepository.create_user: model_dump(exclude={"password"}), in python
\* mode, with the hash added
UserCreateDump(user_create, hashed_password) ==
    [f \in (DOMAIN user_create \ {"password"}) \cup {"hashed_password"} |->
        IF f = "hashed_password" THEN hashed_password
        ELSE IF f \in {"created_at", "updated_at"} THEN BsonDate(user_create[f])
        ELSE user_create[f]]

\* the fields UserUpdate declares; the others of its keyword arguments are
\* ignored
UserUpdateFields == {"email", "username", "is_active", "is_admin", "created_at", "updated_at"}

\* UserUpdate(**data) built at time t: the declared fields of data are set,
\* and updated_at, which model_post_init assigns
UserUpdate(data, t) ==
    UpdateSchema([f \in DOMAIN data \cap UserUpdateFields |-> data[f]], t)

\* model_dump(exclude_unset=True, mode="json") of a UserUpdate
UserUpdateDump(user_update) ==
    [f \in DOMAIN user_update |->
        IF f \in {"created_at", "updated_at"} THEN IsoDateTime(user_update[f])
        ELSE user_update[f]]

\* what UserInDB(**doc) raises: email and username are required texts
UserInDBError(doc) ==
    IF doc.email = None \/ doc.username = None THEN "ValidationError" ELSE NoError

\* UserInDB(**doc), built at time t
UserInDB(id, doc, t) ==
    PostInit([f \in DOMAIN doc \cup {"id"} |->
                 IF f = "id" THEN id
                 ELSE IF f \in {"created_at", "updated_at"} THEN ParseDateTime(doc[f])
                 ELSE doc[f]], t)

\* User(id=..., email=..., ...), built at time t from a UserInDB
User(user_in_db, t) ==
    PostInit([f \in {"id", "email", "username", "is_active", "is_admin",
                     "created_at", "updated_at"} |-> user_in_db[f]], t)

\* the documents find_one({"email": email}) and find_one({"username": ...}) match
UserIdsByEmail(coll, email) == {i \in DOMAIN coll : coll[i].email = Some(email)}
UserIdsByUsername(coll, username) == {i \in DOMAIN coll : coll[i].username = Some(username)}

\* find_one: None, or one of the matching documents
FindOne(ids) == IF ids = {} THEN {None} ELSE {Some(i) : i \in ids}

\* is_email_taken that never finds the email
IsUserEmailTakenNever(coll, email) == FALSE

\* UserRepository.is_email_taken and is_username_taken
IsUserEmailTaken(coll, email) == UserIdsByEmail(coll, email) # {}
IsUsernameTaken(coll, username) == UserIdsByUsername(coll, username) # {}

UserEmailTakenError == "Email already registered"
UsernameTakenError == "Username already taken"
CurrentPasswordRequiredError == "Current password is required to change password"
InvalidCurrentPasswordError == "Invalid current password"

\* UserService.create_user, with the salt its hash draws
CreateUser(user_create, salt) ==
    LET email == user_create.email[1]
        username == user_create.username[1]
        e == IF IsUserEmailTaken(users, email) THEN UserEmailTakenError
             ELSE IF IsUsernameTaken(users, username) THEN UsernameTakenError
             ELSE NoError
        hashed_password == GetPasswordHash(user_create.password, salt)
    IN  /\ IF e = NoError
           THEN /\ users' = InsertOne(users, userNext,
                                      UserCreateDump(user_create, hashed_password))
                /\ userNext' = userNext + 1
           ELSE UNCHANGED <<users, userNext>>
        /\ last' = [op |-> "create_user", arg |-> user_create, err |-> e,
                    hashed |-> (e = NoError),
                    res |-> IF e = NoError
                            THEN Some(User(UserInDB(userNext, users'[userNext], now), now))
                            ELSE None]

\* UserService.authenticate_user
AuthenticateUser(email, password) ==
    /\ \E found \in FindOne(UserIdsByEmail(users, email)) :
          LET e == IF found = None THEN NoError ELSE UserInDBError(users[found[1]])
              user == UserInDB(found[1], users[found[1]], now)
          IN  last' = [op |-> "authenticate_user", arg |-> <<email, password>>, err |-> e,
                       res |-> IF found = None \/ e # NoError THEN None
                               ELSE IF ~VerifyPassword(password, user.hashed_password) THEN None
                               ELSE IF ~user.is_active THEN None
                               ELSE Some(user)]
    /\ UNCHANGED <<users, userNext>>

\* UserRepository.update (BaseRepository.update) and what it returns: Some of
\* the identity when the document was modified, None otherwise
UserRepoUpdate(id, user_update) ==
    LET obj_dict == UserUpdateDump(user_update)
    IN  [coll |-> UpdateOne(users, id, obj_dict),
         res |-> IF ModifiedCount(users, id, obj_dict) = 1 THEN Some(id) ELSE None]

\* UserService.delete_user
DeleteUser(id) ==
    LET updated == UserRepoUpdate(id, UserUpdate([is_active |-> FALSE], now))
        e == IF updated.res = None THEN NoError ELSE UserInDBError(updated.coll[id])
    IN  /\ users' = updated.coll
        /\ UNCHANGED userNext
        /\ last' = [op |-> "delete_user", id |-> id, err |-> e,
                    ok |-> (updated.res # None /\ e = NoError), res |-> None]

\* the error of the uniqueness checks of an update that names an email or a
\* username: another user holds it
OtherHolds(ids, id) == \E found \in FindOne(ids) : found # None /\ found[1] # id

\* a field of the data is given and truthy: not None, and for a password not
\* the empty text (an email, a username and a new password are never empty)
Truthy(data, f) ==
    /\ f \in DOMAIN data
    /\ data[f] # None
    /\ f = "current_password" => data[f][1] # <<>>

\* UserService.update_user
UpdateUser(id, given) ==
    LET e == IF Truthy(given, "email") /\ OtherHolds(UserIdsByEmail(users, given.email[1]), id)
             THEN UserEmailTakenError
             ELSE IF Truthy(given, "username")
                     /\ OtherHolds(UserIdsByUsername(users, given.username[1]), id)
             THEN UsernameTakenError
             ELSE NoError
        updated == UserRepoUpdate(id, UserUpdate(given, now))
    IN  /\ users' = IF e = NoError THEN updated.coll ELSE users
        /\ UNCHANGED userNext
        /\ LET r == IF e = NoError /\ updated.res # None
                    THEN UserInDBError(users'[id]) ELSE e
           IN  last' = [op |-> "update_user", id |-> id, arg |-> given, err |-> r,
                        res |-> IF e = NoError /\ updated.res # None /\ r = NoError
                                THEN Some(User(UserInDB(id, users'[id], now), now))
                                ELSE None]

\* UserService.update_user_profile, with the salt its hash draws
UpdateUserProfile(id, given, salt) ==
    LET exists == id \in DOMAIN users
        user_in_db == UserInDB(id, users[id], now)
        changes_password == Truthy(given, "new_password")
        e == IF ~exists THEN NoError
             ELSE IF UserInDBError(users[id]) # NoError THEN UserInDBError(users[id])
             ELSE IF changes_password /\ ~Truthy(given, "current_password")
             THEN CurrentPasswordRequiredError
             ELSE IF changes_password
                     /\ ~VerifyPassword(given.current_password[1], user_in_db.hashed_password)
             THEN InvalidCurrentPasswordError
             ELSE IF Truthy(given, "email") /\ given.email # user_in_db.email
                     /\ OtherHolds(UserIdsByEmail(users, given.email[1]), id)
             THEN UserEmailTakenError
             ELSE IF Truthy(given, "username") /\ given.username # user_in_db.username
                     /\ OtherHolds(UserIdsByUsername(users, given.username[1]), id)
             THEN UsernameTakenError
             ELSE NoError
        dumped == UpdateSchema([f \in DOMAIN given \ {"current_password", "new_password"} |->
                                   given[f]], now)
        update_data ==
            IF changes_password
            THEN [f \in DOMAIN dumped \cup {"hashed_password"} |->
                     IF f = "hashed_password"
                     THEN GetPasswordHash(given.new_password[1], salt) ELSE dumped[f]]
            ELSE dumped
        updated == UserRepoUpdate(id, UserUpdate(update_data, now))
        writes == exists /\ e = NoError
    IN  /\ users' = IF writes THEN updated.coll ELSE users
        /\ UNCHANGED userNext
        /\ LET r == IF writes /\ updated.res # None THEN UserInDBError(users'[id]) ELSE e
           IN  last' = [op |-> "update_user_profile", id |-> id, arg |-> given, err |-> r,
                        res |-> IF writes /\ updated.res # None /\ r = NoError
                                THEN Some(User(UserInDB(id, users'[id], now), now))
                                ELSE None]

(***************************************************************************)
(* The attendance specification: the service's calls, one at a time.       *)
(***************************************************************************)
Empty == [i \in {} |-> None]
Idle == [op |-> "none", err |-> NoError, res |-> None]

AttMembers == {"m1", "m2"}
AttDates == {<<2024, 2, 10>>, <<2024, 10, 2>>}
AttTypes == {"sunday service", "bible study"}

\* the drafts: every (member, date, type), present and without notes; and for
\* member m1 also absent with a note
AttDrafts ==
    {[member_id |-> m, attendance_date |-> d, attendance_type |-> t,
      status |-> "present", notes |-> None] :
        m \in AttMembers, d \in AttDates, t \in AttTypes}
    \cup {[member_id |-> "m1", attendance_date |-> d, attendance_type |-> t,
           status |-> "absent", notes |-> Some("travelling")] :
        d \in AttDates, t \in AttTypes}

\* the patches: any of attendance_date and attendance_type set
AttPatches ==
    {[f \in fs |-> full[f]] :
        full \in [attendance_date : AttDates, attendance_type : AttTypes],
        fs \in SUBSET {"attendance_date", "attendance_type"}}

UsersIdle == users = Empty /\ userNext = 1 /\ calls = Empty /\ tokens = {}

OtherIdle ==
    /\ UsersIdle
    /\ members = Empty /\ memNext = 1
    /\ events = Empty /\ evNext = 1
    /\ now = 0

InitAttendance ==
    /\ attendance = Empty /\ attNext = 1
    /\ last = Idle
    /\ OtherIdle

NextAttendance ==
    /\ UNCHANGED <<users, userNext, calls, tokens>>
    /\ UNCHANGED <<members, memNext, events, evNext, now>>
    /\ \/ \E draft \in AttDrafts : attNext <= MaxAttendance /\ CreateAttendance(draft)
       \/ \E id \in 1..MaxAttendance, patch \in AttPatches : UpdateAttendance(id, patch)
       \/ \E id \in 1..MaxAttendance : DeleteAttendance(id)

SpecAttendance == InitAttendance /\ [][NextAttendance]_vars

(***************************************************************************)
(* The summary specification: records are created, summaries are asked.    *)
(***************************************************************************)
AttStatuses == {"present", "absent", "late", "excused"}

\* the drafts: member m1 on every date, for every type, with every status;
\* member m2 once
SumDrafts ==
    {[member_id |-> "m1", attendance_date |-> d, attendance_type |-> t,
      status |-> st, notes |-> None] :
        d \in AttDates, t \in AttTypes, st \in AttStatuses}
    \cup {[member_id |-> "m2", attendance_date |-> <<2024, 2, 10>>,
           attendance_type |-> "sunday service", status |-> "present", notes |-> None]}

NextSummary ==
    /\ UNCHANGED <<users, userNext, calls, tokens>>
    /\ UNCHANGED <<members, memNext, events, evNext, now>>
    /\ \/ \E draft \in SumDrafts : attNext <= MaxSummaryDocs /\ CreateAttendance(draft)
       \/ \E m \in AttMembers, s \in AttDates, e \in AttDates :
              GetMemberAttendanceSummary(m, s, e)

SpecSummary == InitAttendance /\ [][NextSummary]_vars

(***************************************************************************)
(* The member specification: the service's calls, one at a time.           *)
(***************************************************************************)
MemEmails == {"ann@example.com", "bob@example.com"}
MemPhones == {"555-010-0001", "555-010-0002"}

\* the drafts MemberCreate accepts: email optional, phone required
MemDrafts ==
    {[email |-> e, phone |-> Some(ph), is_active |-> TRUE,
      status |-> Some(MemberStatus.MEMBER)] :
        e \in {None} \cup {Some(x) : x \in MemEmails}, ph \in MemPhones}

\* the patches MemberUpdate accepts: any of email, phone and is_active set,
\* email and phone possibly to null
MemPatches ==
    {[f \in fs |-> full[f]] :
        full \in [email : {None} \cup {Some(x) : x \in MemEmails},
                  phone : {None} \cup {Some(x) : x \in MemPhones},
                  is_active : {FALSE}],
        fs \in SUBSET {"email", "phone", "is_active"}}

InitMembers ==
    /\ UsersIdle
    /\ members = Empty /\ memNext = 1
    /\ attendance = Empty /\ attNext = 1
    /\ events = Empty /\ evNext = 1
    /\ now = 0
    /\ last = Idle

NextMembers ==
    /\ UNCHANGED <<users, userNext, calls, tokens>>
    /\ UNCHANGED <<attendance, attNext, events, evNext, now>>
    /\ \/ \E draft \in MemDrafts : CreateMember(draft) /\ memNext' <= MaxMembers + 1
       \/ \E id \in 1..MaxMembers, patch \in MemPatches : UpdateMember(id, patch)
       \/ \E id \in 1..MaxMembers : DeleteMember(id)
       \/ \E id \in 1..MaxMembers : GetMemberById(id)

SpecMembers == InitMembers /\ [][NextMembers]_vars

(***************************************************************************)
(* The round-trip specification: members created and read back through the *)
(* repository and through the service, while the clock advances.           *)
(***************************************************************************)
\* get_current_date advancing between calls
Tick ==
    /\ now < MaxClock
    /\ now' = now + 1
    /\ UNCHANGED <<members, memNext, last>>

\* MemberCreate(...) built at time t: created_at is the caller's value, not
\* ahead of the clock, or by default t; model_post_init sets updated_at to t
RtDrafts(t) ==
    {PostInit([email |-> None, phone |-> Some(ph), is_active |-> TRUE,
               status |-> Some(MemberStatus.MEMBER), ministry |-> mi,
               created_at |-> c, updated_at |-> c], t) :
        ph \in MemPhones, mi \in {None, Some("choir")}, c \in {0, t}}

NextRoundTrip ==
    /\ UNCHANGED <<users, userNext, calls, tokens>>
    /\ UNCHANGED <<attendance, attNext, events, evNext>>
    /\ \/ Tick
       \/ /\ UNCHANGED now
          /\ \/ \E draft \in RtDrafts(now) :
                   MemberRepoCreate(draft) /\ memNext' <= MaxMembers + 1
             \/ \E id \in 1..MaxMembers : MemberRepoGetById(id)
             \/ \E draft \in RtDrafts(now) :
                   CreateMember(draft) /\ memNext' <= MaxMembers + 1
             \/ \E id \in 1..MaxMembers : GetMemberById(id)

SpecRoundTrip == InitMembers /\ [][NextRoundTrip]_vars

(***************************************************************************)
(* The paging specification: members stored through the repository, and    *)
(* pages of them read with get_many.                                       *)
(***************************************************************************)
PageDates == {<<2024, 2, 10>>, <<2024, 10, 2>>}

PageDrafts ==
    {[email |-> None, phone |-> Some(ph), is_active |-> a,
      status |-> Some(MemberStatus.MEMBER), membership_date |-> Some(d)] :
        ph \in {"555-010-0001"}, a \in BOOLEAN, d \in PageDates}

PageFilters == {[f \in fs |-> TRUE] : fs \in SUBSET {"is_active"}}

NextPaging ==
    /\ UNCHANGED <<users, userNext, calls, tokens>>
    /\ UNCHANGED <<attendance, attNext, events, evNext, now>>
    /\ \/ \E draft \in PageDrafts : MemberRepoCreate(draft) /\ memNext' <= MaxMembers + 1
       \/ \E skip \in 0..MaxLimit, limit \in 1..MaxLimit, filter_dict \in PageFilters,
             sort_order \in {"asc", "desc"} :
               GetMany(skip, limit, filter_dict, "membership_date", sort_order)

SpecPaging == InitMembers /\ [][NextPaging]_vars

(***************************************************************************)
(* The event specification: events created and updated through the API.    *)
(***************************************************************************)
EvDates == {<<2024, 2, 10>>, <<2024, 10, 2>>}
EvTimes == {<<9, 0>>, <<10, 30>>}
EvColors ==
    {<<"r", "e", "d">>, <<"#", "F", "F", "F">>, <<"#", "1", "A", "2", "B", "3", "C">>,
     <<"#", "1", "a", "2", "b", "3", "c">>, <<"#", "G", "G", "G", "G", "G", "G">>,
     <<"1", "A", "2", "B", "3", "C", "#">>, <<"#", "1", "A", "2", "B", "3", "C", "D">>}

OptionOf(S) == {None} \cup {Some(x) : x \in S}

EvBase ==
    [start_date |-> Some(<<2024, 2, 10>>), end_date |-> None, start_time |-> None,
     end_time |-> None, color |-> None]

\* the bodies of a create: the base with its dates or its times varied
EvBodies ==
    {[EvBase EXCEPT !.start_date = Some(s), !.end_date = e] :
        s \in EvDates, e \in OptionOf(EvDates)}
    \cup {[EvBase EXCEPT !.end_date = EvBase.start_date, !.start_time = st, !.end_time = et] :
        st \in OptionOf(EvTimes), et \in OptionOf(EvTimes)}

\* the bodies of an update: an end date, or a start date, or an end time
EvPatches ==
    {[end_date |-> Some(d)] : d \in EvDates}
    \cup {[start_date |-> Some(d)] : d \in EvDates}
    \cup {[end_time |-> Some(t)] : t \in EvTimes}

NextEvents ==
    /\ UNCHANGED <<users, userNext, calls, tokens>>
    /\ UNCHANGED <<attendance, attNext, members, memNext, now>>
    /\ \/ \E body \in EvBodies : ApiCreateEvent(body) /\ evNext' <= MaxEvents + 1
       \/ \E id \in 1..MaxEvents, body \in EvPatches : ApiUpdateEvent(id, body)

SpecEvents == InitMembers /\ [][NextEvents]_vars

\* the colour specification: the bodies of a create and of an update with
\* the colour varied, and an update of the end date
ColorBodies == {EvBase} \cup {[EvBase EXCEPT !.color = Some(c)] : c \in EvColors}

ColorPatches ==
    {[color |-> Some(c)] : c \in EvColors} \cup {[end_date |-> Some(d)] : d \in EvDates}

NextColors ==
    /\ UNCHANGED <<users, userNext, calls, tokens>>
    /\ UNCHANGED <<attendance, attNext, members, memNext, now>>
    /\ \/ \E body \in ColorBodies : ApiCreateEvent(body) /\ evNext' <= MaxEvents + 1
       \/ \E id \in 1..MaxEvents, body \in ColorPatches : ApiUpdateEvent(id, body)

SpecColors == InitMembers /\ [][NextColors]_vars

(***************************************************************************)
(* The dated specification: attendance created and updated through the API *)
(* while the days pass.                                                    *)
(***************************************************************************)
\* the bodies: member m1 at the Sunday service of each day up to the day
\* after the last
DatedBodies ==
    {[member_id |-> "m1", attendance_date |-> DateOfDay(n),
      attendance_type |-> "sunday service", status |-> "present", notes |-> None] :
        n \in 0..MaxClock + 1}

DatedPatches ==
    {[attendance_date |-> DateOfDay(n)] : n \in 0..MaxClock + 1}
    \cup {[attendance_type |-> "bible study"]}

NextDated ==
    /\ UNCHANGED <<users, userNext, calls, tokens>>
    /\ UNCHANGED <<events, evNext>>
    /\ \/ Tick /\ UNCHANGED <<attendance, attNext>>
       \/ /\ UNCHANGED <<members, memNext, now>>
          /\ \/ \E body \in DatedBodies :
                   ApiCreateAttendance(body) /\ attNext' <= MaxAttendance + 1
             \/ \E id \in 1..MaxAttendance, body \in DatedPatches :
                   ApiUpdateAttendance(id, body)

SpecDated == InitAttendance /\ [][NextDated]_vars

(***************************************************************************)
(* The adapter specification: every adapter called on every outcome of its *)
(* backend.                                                                *)
(***************************************************************************)
InsightContent == <<" ", "<", "p", ">", "G", "r", "o", "w", "<", "/", "p", ">", "\n">>
TagsContent == <<"F", "a", "i", "t", "h", ",", " ", "H", "o", "p", "e", " ", ",", "l", "o", "v", "e", ",", ",", "j", "o", "y", ",", "p", "e", "a", "c", "e", ",", "g", "r", "a", "c", "e">>

\* the body of a completion whose message carries the content
CompletionBody(content) ==
    PyDict([choices |-> PyList(<<PyDict([message |-> PyDict([content |-> content])])>>)])

GoodBodies == {CompletionBody(PyStr(InsightContent)), CompletionBody(PyStr(TagsContent))}

\* not JSON; an object without choices; no choice; an array; a null content;
\* a message without content
MalformedBodies ==
    {Raise("JSONDecodeError"), EmptyDict, PyDict([choices |-> PyList(<<>>)]),
     PyList(<<>>), CompletionBody(PyNone),
     PyDict([choices |-> PyList(<<PyDict([message |-> EmptyDict])>>)])}

HttpStatuses == {200, 201, 301, 404, 500, 503}

\* the outcomes of a call of the local backend, each with the class of
\* outcome it belongs to
LocalOutcomes ==
    {[kind |-> "ReadTimeout", class |-> "timeout"],
     [kind |-> "ConnectError", class |-> "unavailable"]}
    \cup {[kind |-> "response", status |-> st, body |-> b,
           class |-> IF st \div 100 # 2 THEN "status"
                     ELSE IF b \in MalformedBodies THEN "malformed" ELSE "success"] :
            st \in HttpStatuses, b \in GoodBodies \cup MalformedBodies}

\* the outcomes of a call of Gemini
GeminiOutcomes ==
    {[kind |-> "not configured", class |-> "unavailable"],
     [kind |-> "DeadlineExceeded", class |-> "timeout"],
     [kind |-> "InternalServerError", class |-> "status"]}
    \cup {[kind |-> "response", text |-> x, class |-> "malformed"] :
            x \in {Raise("ValueError"), Raise("AttributeError"), PyNone, PyStr(<<>>)}}
    \cup {[kind |-> "response", text |-> PyStr(x), class |-> "success"] :
            x \in {InsightContent, TagsContent}}

NextAdapters ==
    \/ \E o \in LocalOutcomes : AdapterCall("LocalAIService.generate", o, LocalAIGenerate(o))
    \/ \E o \in LocalOutcomes :
          AdapterCall("LocalTagService.generate_tags", o, LocalGenerateTags(o))
    \/ \E o \in GeminiOutcomes : AdapterCall("GeminiService.generate", o, GeminiGenerate(o))
    \/ \E o \in GeminiOutcomes :
          AdapterCall("GeminiTagService.generate_tags", o, GeminiGenerateTags(o))
    \/ \E a \in {"local", "gemini"}, g \in GeminiOutcomes, l \in LocalOutcomes :
          AdapterCall("MemberInsightService.generate_member_insights",
                      [ai_service |-> a, gemini |-> g, local |-> l],
                      GenerateMemberInsights(a, g, l))

SpecAdapters == InitMembers /\ [][NextAdapters]_vars

(***************************************************************************)
(* The patch specification: members stored, patched and read through the   *)
(* repository, while the clock advances.                                   *)
(***************************************************************************)
PatchDrafts(t) ==
    {PostInit([email |-> Some("ann@example.com"), phone |-> Some("555-010-0001"),
               is_active |-> TRUE, status |-> Some(MemberStatus.MEMBER),
               created_at |-> t, updated_at |-> t], t)}

\* the fields the caller of a MemberUpdate gives: none, or any of email, as
\* null or as a value, and is_active
PatchGiven ==
    {[f \in fs |-> full[f]] :
        full \in [email : {None, Some("bob@example.com")}, is_active : {FALSE}],
        fs \in SUBSET {"email", "is_active"}}

NextPatch ==
    /\ UNCHANGED <<users, userNext, calls, tokens>>
    /\ UNCHANGED <<attendance, attNext, events, evNext>>
    /\ \/ Tick
       \/ /\ UNCHANGED now
          /\ \/ \E draft \in PatchDrafts(now) :
                   MemberRepoCreate(draft) /\ memNext' <= MaxPatchDocs + 1
             \/ \E id \in 1..MaxPatchDocs, given \in PatchGiven : MemberRepoUpdate(id, given)
             \/ \E id \in 1..MaxPatchDocs : MemberRepoGetById(id)

SpecPatch == InitMembers /\ [][NextPatch]_vars

(***************************************************************************)
(* Identities as text: the repository read by the text of an id.           *)
(***************************************************************************)
\* bson.ObjectId as get_by_id uses it: the text of an identity is 24
\* hexadecimal digits, and str() of an identity writes them in lower case
OidLength == 24
OidDigits == <<"0", "1", "2", "3", "4", "5", "6", "7", "8", "9",
               "a", "b", "c", "d", "e", "f">>

\* str(doc["_id"]) for the n-th identity the store gave out
StrOfObjectId(n) ==
    [k \in 1..OidLength |-> IF k = OidLength THEN OidDigits[n + 1] ELSE OidDigits[1]]

\* ObjectId(text) raises InvalidId unless the text is 24 hexadecimal digits
ObjectIdIsValid(text) ==
    /\ Len(text) = OidLength
    /\ \A k \in DOMAIN text : \E i \in DOMAIN OidDigits : OidDigits[i] = Lower(text)[k]

InvalidIdError == "InvalidId"

\* the documents find_one({"_id": ObjectId(text)}) matches
IdsByObjectId(coll, text) == {i \in DOMAIN coll : StrOfObjectId(i) = Lower(text)}

\* MemberRepository.get_by_id (BaseRepository.get_by_id) called with the
\* text of an id, as the services and the API call it
MemberRepoGetByIdText(text) ==
    /\ IF ~ObjectIdIsValid(text)
       THEN last' = [op |-> "repo_get_by_id_text", arg |-> text,
                     err |-> InvalidIdError, res |-> None]
       ELSE LET found == IdsByObjectId(members, text)
                doc == IF found = {} THEN None
                       ELSE LET i == CHOOSE i \in found : TRUE
                            IN  Some([f \in DOMAIN MemberInDB(i, members[i], now) |->
                                        IF f = "id" THEN StrOfObjectId(i)
                                        ELSE MemberInDB(i, members[i], now)[f]])
            IN  last' = [op |-> "repo_get_by_id_text", arg |-> text,
                         err |-> NoError, res |-> doc]
    /\ UNCHANGED <<members, memNext>>

(***************************************************************************)
(* The identity specification: members stored through the repository and   *)
(* read back by the text of an id.                                         *)
(***************************************************************************)
\* the texts a caller passes as an id: the identities the store gives out, in
\* lower and in upper case digits, and texts that are no identity
IdTexts ==
    {StrOfObjectId(n) : n \in 1..(MaxMembers + 1)}
        \cup {StrOfObjectId(10), [StrOfObjectId(1) EXCEPT ![1] = "A"],
              [StrOfObjectId(1) EXCEPT ![1] = "z"],
              << >>, <<"1">>, <<"a", "b", "c">>, SubSeq(StrOfObjectId(1), 2, OidLength),
              StrOfObjectId(1) \o <<"0">>}

NextIdentity ==
    /\ UNCHANGED <<users, userNext, calls, tokens>>
    /\ UNCHANGED <<attendance, attNext, events, evNext>>
    /\ \/ Tick
       \/ /\ UNCHANGED now
          /\ \/ \E draft \in PatchDrafts(now) :
                   MemberRepoCreate(draft) /\ memNext' <= MaxMembers + 1
             \/ \E text \in IdTexts : MemberRepoGetByIdText(text)

SpecIdentity == InitMembers /\ [][NextIdentity]_vars

(***************************************************************************)
(* The users specification: accounts created, deactivated, updated and     *)
(* authenticated through the service, one call at a time.                  *)
(***************************************************************************)
UserEmails == {"ann@example.com", "bob@example.com"}
Usernames == {"ann", "bob"}
Salts == {"salt1", "salt2"}

OldPassword == <<"o", "l", "d", "-", "p", "a", "s", "s">>
NewPassword == <<"n", "e", "w", "-", "p", "a", "s", "s">>
\* two passwords of 73 characters that differ in the last one only
LongPassword(c) == [k \in 1..(BcryptMaxBytes + 1) |-> IF k > BcryptMaxBytes THEN c ELSE "a"]

UserDrafts(t) ==
    {PostInit([email |-> Some(e), username |-> Some(u), password |-> p,
               is_active |-> TRUE, is_admin |-> FALSE,
               created_at |-> t, updated_at |-> t], t) :
        e \in UserEmails, u \in Usernames, p \in {OldPassword, LongPassword("x")}}

AuthPasswords == {OldPassword, NewPassword, LongPassword("y")}

\* the fields the caller of a profile update gives
ProfileGiven ==
    {[f \in fs |-> full[f]] :
        full \in [email : {Some("bob@example.com")},
                  current_password : {None, Some(<< >>), Some(OldPassword), Some(NewPassword)},
                  new_password : {Some(NewPassword)}],
        fs \in {{"new_password"}, {"email"}, {"current_password", "new_password"},
                {"current_password", "new_password", "email"}}}

\* the fields an administrator's update gives
UserGiven == {[is_active |-> TRUE], [email |-> Some("bob@example.com")]}

NextUsers ==
    /\ UNCHANGED <<attendance, attNext, members, memNext, events, evNext, calls, tokens, now>>
    /\ \/ \E draft \in UserDrafts(now), salt \in Salts :
             CreateUser(draft, salt) /\ userNext' <= MaxUsers + 1
       \/ \E email \in UserEmails, password \in AuthPasswords :
             AuthenticateUser(email, password)
       \/ \E id \in 1..MaxUsers : DeleteUser(id)
       \/ \E id \in 1..MaxUsers, given \in UserGiven : UpdateUser(id, given)
       \/ \E id \in 1..MaxUsers, given \in ProfileGiven, salt \in Salts :
             UpdateUserProfile(id, given, salt)

SpecUsers == InitMembers /\ [][NextUsers]_vars

(***************************************************************************)
(* The interleaving specification: create_attendance and create_member     *)
(* calls in flight together.  Each await of a call is a step of its own:   *)
(* the existence checks first, the insert and what follows it last.  A     *)
(* call remembers the documents its last check saw.                        *)
(***************************************************************************)
Callers == 1..MaxCalls

RaceAttDrafts ==
    {[member_id |-> "m1", attendance_date |-> d, attendance_type |-> "sunday service",
      status |-> "present", notes |-> None] : d \in AttDates}

RaceMemDrafts ==
    {[email |-> Some("ann@example.com"), phone |-> Some(ph), is_active |-> TRUE,
      status |-> Some(MemberStatus.MEMBER)] : ph \in MemPhones}

\* a call of the service begins: nothing awaited yet
StartCall(p, op, draft) ==
    /\ p \notin DOMAIN calls
    /\ calls' = [q \in DOMAIN calls \cup {p} |->
                    IF q = p THEN [op |-> op, arg |-> draft, pc |-> "check",
                                   seen |-> {}, err |-> NoError, id |-> 0]
                    ELSE calls[q]]
    /\ UNCHANGED <<attendance, attNext, members, memNext>>

At(p, op, pc) == p \in DOMAIN calls /\ calls[p].op = op /\ calls[p].pc = pc

Raised(p, e) == [calls EXCEPT ![p].pc = "done", ![p].err = e]

\* create_attendance up to the answer of check_attendance_exists
CheckAttendanceStep(p) ==
    /\ At(p, "create_attendance", "check")
    /\ LET draft == calls[p].arg
       IN  calls' = IF CheckAttendanceExists(attendance, draft.member_id,
                                             draft.attendance_date, draft.attendance_type)
                    THEN Raised(p, AttendanceExistsError)
                    ELSE [calls EXCEPT ![p].pc = "insert", ![p].seen = DOMAIN attendance]
    /\ UNCHANGED <<attendance, attNext, members, memNext>>

\* create_attendance from attendance_repo.create to its end
InsertAttendanceStep(p) ==
    /\ At(p, "create_attendance", "insert")
    /\ attendance' = InsertOne(attendance, attNext, AttendanceDump(calls[p].arg))
    /\ attNext' = attNext + 1
    /\ calls' = [calls EXCEPT ![p].pc = "done", ![p].id = attNext,
                              ![p].err = AttendanceResponseError(
                                            AttendanceInDB(attNext, attendance'[attNext]))]
    /\ UNCHANGED <<members, memNext>>

\* create_member up to the answer of is_email_taken
CheckEmailStep(p) ==
    /\ At(p, "create_member", "check")
    /\ LET draft == calls[p].arg
       IN  calls' = IF draft.email # None /\ IsEmailTaken(members, draft.email)
                    THEN Raised(p, EmailTakenError)
                    ELSE [calls EXCEPT ![p].pc = "check_phone", ![p].seen = DOMAIN members]
    /\ UNCHANGED <<attendance, attNext, members, memNext>>

\* create_member from there to the answer of is_phone_taken
CheckPhoneStep(p) ==
    /\ At(p, "create_member", "check_phone")
    /\ LET draft == calls[p].arg
       IN  calls' = IF draft.phone # None /\ IsPhoneTaken(members, draft.phone)
                    THEN Raised(p, PhoneTakenError)
                    ELSE [calls EXCEPT ![p].pc = "insert"]
    /\ UNCHANGED <<attendance, attNext, members, memNext>>

\* create_member from member_repo.create to its end
InsertMemberStep(p) ==
    /\ At(p, "create_member", "insert")
    /\ members' = InsertOne(members, memNext, MemberDump(PostInit(calls[p].arg, now)))
    /\ memNext' = memNext + 1
    /\ calls' = [calls EXCEPT ![p].pc = "done", ![p].id = memNext,
                              ![p].err = MemberInDBError(members'[memNext])]
    /\ UNCHANGED <<attendance, attNext>>

NextRace ==
    /\ UNCHANGED <<events, evNext, users, userNext, tokens, now, last>>
    /\ \E p \in Callers :
          \/ \E draft \in RaceAttDrafts : StartCall(p, "create_attendance", draft)
          \/ \E draft \in RaceMemDrafts : StartCall(p, "create_member", draft)
          \/ CheckAttendanceStep(p)
          \/ InsertAttendanceStep(p)
          \/ CheckEmailStep(p)
          \/ CheckPhoneStep(p)
          \/ InsertMemberStep(p)

SpecRace == InitMembers /\ [][NextRace]_vars

(***************************************************************************)
(* Backup and restore: the administrator's export of every collection as   *)
(* one JSON object, and the upload that replaces the collections it names.  *)
(* A JSON object is the sequence of its (name, value) pairs, in order.     *)
(***************************************************************************)
CollectionNames == {"attendance", "members", "calendar_events", "users"}

\* the database: each collection with the next identity the store gives out
\* in it; a collection exists once a document has been inserted in it
Db ==
    [name \in CollectionNames |->
        IF name = "attendance" THEN [coll |-> attendance, next |-> attNext]
        ELSE IF name = "members" THEN [coll |-> members, next |-> memNext]
        ELSE IF name = "calendar_events" THEN [coll |-> events, next |-> evNext]
        ELSE [coll |-> users, next |-> userNext]]

\* db.list_collection_names(), in the order the export walks them
ListCollectionNames(db) ==
    SelectSeq(<<"attendance", "calendar_events", "members", "users">>,
              LAMBDA name : db[name].next > 1)

\* the identities of a collection in ascending order
RECURSIVE IdsInOrder(_)
IdsInOrder(ids) ==
    IF ids = {} THEN << >>
    ELSE LET first == CHOOSE i \in ids : \A j \in ids : i <= j
         IN  <<first>> \o IdsInOrder(ids \ {first})

\* find({}).to_list(): the documents of a collection
DocsOf(coll) == [k \in DOMAIN IdsInOrder(DOMAIN coll) |-> coll[IdsInOrder(DOMAIN coll)[k]]]

\* str() of a datetime, which json.dumps(default=str) writes for a native date
StrOfDateTime(t) == <<"str", t>>

TimestampFields == {"created_at", "updated_at"}

\* a document as the export writes it and json.loads reads it back: _id as
\* text, a native date as the text str() gives, every JSON value as it is
ExportDoc(id, doc) ==
    [f \in DOMAIN doc \cup {"_id"} |->
        IF f = "_id" THEN StrOfObjectId(id)
        ELSE IF f \in TimestampFields /\ doc[f][1] = "date"
             THEN StrOfDateTime(ParseDateTime(doc[f]))
        ELSE doc[f]]

\* export_data of backup_database
ExportData(db) ==
    [k \in DOMAIN ListCollectionNames(db) |->
        LET name == ListCollectionNames(db)[k]
            ids == IdsInOrder(DOMAIN db[name].coll)
        IN  <<name, PyList([n \in DOMAIN ids |->
                               PyDict(ExportDoc(ids[n], db[name].coll[ids[n]]))])>>]

\* backup_database
BackupDatabase ==
    /\ last' = [op |-> "backup", err |-> NoError, res |-> Some(PyDict(ExportData(Db)))]
    /\ UNCHANGED <<attendance, attNext, members, memNext, events, evNext, users, userNext>>

\* d.pop("_id", None)
PopId(d) == [f \in DOMAIN d \ {"_id"} |-> d[f]]

\* collection.insert_many(docs): each document under a fresh identity
InsertMany(c, docs) ==
    [coll |-> [i \in DOMAIN c.coll \cup (c.next..(c.next + Len(docs) - 1)) |->
                  IF i \in DOMAIN c.coll THEN c.coll[i] ELSE docs[i - c.next + 1]],
     next |-> c.next + Len(docs)]

\* collection.delete_many({})
DeleteMany(c) == [coll |-> Empty, next |-> c.next]

\* one turn of the loop of restore_database over a collection with a list
\* value: the collection is cleared, and the documents, if any and if each
\* is an object, are inserted without their _id
RestoreCollection(c, docs) ==
    IF \E k \in DOMAIN docs : TypeOf(docs[k]) # "dict"
    THEN [c |-> DeleteMany(c), err |-> "ValueError"]
    ELSE [c |-> InsertMany(DeleteMany(c), [k \in DOMAIN docs |-> PopId(ValueOf(docs[k]))]),
          err |-> NoError]

\* the loop of restore_database from the k-th pair of the uploaded object on
RECURSIVE RestoreFrom(_, _, _)
RestoreFrom(db, data, k) ==
    IF k > Len(data) THEN [db |-> db, err |-> NoError]
    ELSE LET name == data[k][1]
             docs == data[k][2]
         IN  IF TypeOf(docs) # "list" THEN RestoreFrom(db, data, k + 1)
             ELSE LET turn == RestoreCollection(db[name], ValueOf(docs))
                      after == [db EXCEPT ![name] = turn.c]
                  IN  IF turn.err # NoError THEN [db |-> after, err |-> turn.err]
                      ELSE RestoreFrom(after, data, k + 1)

InvalidBackupError == "Invalid backup format"

\* restore_database of an uploaded JSON value
RestoreDatabase(data) ==
    LET done == IF TypeOf(data) # "dict" THEN [db |-> Db, err |-> InvalidBackupError]
                ELSE RestoreFrom(Db, ValueOf(data), 1)
    IN  /\ attendance' = done.db["attendance"].coll /\ attNext' = done.db["attendance"].next
        /\ members' = done.db["members"].coll /\ memNext' = done.db["members"].next
        /\ events' = done.db["calendar_events"].coll
        /\ evNext' = done.db["calendar_events"].next
        /\ users' = done.db["users"].coll /\ userNext' = done.db["users"].next
        /\ last' = [op |-> "restore", arg |-> data, err |-> done.err, res |-> None]

(***************************************************************************)
(* The backup specification: members and users stored, the database        *)
(* exported, and uploads restored: the last export, or a file of the       *)
(* administrator's own.                                                    *)
(***************************************************************************)
BackupUserDrafts(t) ==
    {PostInit([email |-> Some("ann@example.com"), username |-> Some("ann"),
               password |-> OldPassword, is_active |-> TRUE, is_admin |-> FALSE,
               created_at |-> t, updated_at |-> t], t)}

\* a member document as a hand-written backup file lists it
UploadedMember ==
    PyDict([_id |-> StrOfObjectId(10), email |-> Some("bob@example.com"),
            phone |-> Some("555-010-0002"), is_active |-> TRUE,
            status |-> Some(MemberStatus.MEMBER),
            created_at |-> IsoDateTime(0), updated_at |-> IsoDateTime(0)])

Uploads ==
    {PyDict(<< >>),
     PyList(<< >>),
     PyDict(<< <<"members", PyList(<< >>)>> >>),
     PyDict(<< <<"members", PyStr(<<"x">>)>> >>),
     PyDict(<< <<"members", PyList(<<UploadedMember>>)>> >>),
     PyDict(<< <<"members", PyList(<<UploadedMember, UploadedMember>>)>> >>),
     PyDict(<< <<"members", PyList(<< >>)>>, <<"users", PyList(<<PyStr(<<"x">>)>>)>> >>)}

NextBackup ==
    /\ UNCHANGED <<calls, tokens, now>>
    /\ \/ /\ \E draft \in PatchDrafts(now) :
                MemberRepoCreate(draft) /\ memNext' <= MaxIdentity + 1
          /\ UNCHANGED <<attendance, attNext, events, evNext, users, userNext>>
       \/ /\ \E draft \in BackupUserDrafts(now), salt \in {"salt1"} :
                CreateUser(draft, salt) /\ userNext' <= MaxIdentity + 1
          /\ UNCHANGED <<attendance, attNext, events, evNext, members, memNext>>
       \/ BackupDatabase
       \/ \E data \in Uploads \cup (IF last.op = "backup" THEN {last.res[1]} ELSE {}) :
             /\ RestoreDatabase(data)
             /\ memNext' <= MaxIdentity + 1 /\ userNext' <= MaxIdentity + 1

SpecBackup == InitMembers /\ [][NextBackup]_vars

(***************************************************************************)
(* The status specification: attendance documents put in the store by a    *)
(* restore, whose status the service never validated, and the two          *)
(* summaries asked of the repository.                                      *)
(***************************************************************************)
\* AttendanceRepository.get_member_attendance_summary, called
RepoGetMemberAttendanceSummary(member_id, start_date, end_date) ==
    /\ last' = [op |-> "repo_member_summary",
                arg |-> [member_id |-> member_id, start_date |-> start_date,
                         end_date |-> end_date],
                err |-> NoError,
                res |-> Some(RepoMemberAttendanceSummary(attendance, member_id,
                                                         start_date, end_date))]
    /\ UNCHANGED <<attendance, attNext>>

\* AttendanceRepository.get_service_attendance_summary, called
RepoGetServiceAttendanceSummary(attendance_date, attendance_type) ==
    /\ last' = [op |-> "repo_service_summary",
                arg |-> [attendance_date |-> attendance_date,
                         attendance_type |-> attendance_type],
                err |-> NoError,
                res |-> Some(RepoServiceAttendanceSummary(attendance, attendance_date,
                                                          attendance_type))]
    /\ UNCHANGED <<attendance, attNext>>

\* the statuses a stored document may carry: the four of AttendanceStatus,
\* and two texts that are none of them
StoredStatuses == AttStatuses \cup {"sick", "Present"}

\* the attendance documents an uploaded backup lists
StatusDocs ==
    {PyDict([member_id |-> "m1", attendance_date |-> IsoFormat(<<2024, 2, 10>>),
             attendance_type |-> "sunday service", status |-> st, notes |-> None]) :
        st \in StoredStatuses}

StatusUploads ==
    {PyDict(<< <<"attendance", PyList(docs)>> >>) :
        docs \in UNION {[1..n -> StatusDocs] : n \in 0..MaxStatusDocs}}

NextStatus ==
    /\ UNCHANGED <<calls, tokens, now>>
    /\ \/ \E data \in StatusUploads :
             RestoreDatabase(data) /\ attNext' <= MaxStatusDocs + 1
       \/ /\ UNCHANGED <<members, memNext, events, evNext, users, userNext>>
          /\ \/ \E m \in AttMembers, s \in AttDates, e \in AttDates :
                   RepoGetMemberAttendanceSummary(m, s, e)
             \/ \E d \in AttDates, t \in AttTypes : RepoGetServiceAttendanceSummary(d, t)

SpecStatus == InitAttendance /\ [][NextStatus]_vars

(***************************************************************************)
(* The queries over events: the store is filled through the API, the clock *)
(* advances by days, and the service's date queries read the store.        *)
(***************************************************************************)
\* date.today()
Today == DateOfDay(now)

\* {f: {"$lt": text}}: a text below the bound; null and a missing field
\* never match
FieldLt(doc, f, text) == f \in DOMAIN doc /\ doc[f] # None /\ StrLt(doc[f][1], text)

\* {f: {"$gte": text}}
FieldGte(doc, f, text) == f \in DOMAIN doc /\ doc[f] # None /\ StrLeq(text, doc[f][1])

\* {f: {"$lte": text}}
FieldLte(doc, f, text) == f \in DOMAIN doc /\ doc[f] # None /\ StrLeq(doc[f][1], text)

\* {f: None}: the field is null or missing
FieldIsNone(doc, f) == f \notin DOMAIN doc \/ doc[f] = None

\* the filter of get_upcoming_events
UpcomingFilter(doc, today) == FieldGte(doc, "start_date", today)

\* the filter of get_past_events_by_end_date: its three $or branches
PastByEndDateFilter(doc, today) ==
    \/ FieldLt(doc, "end_date", today)
    \/ "end_date" \notin DOMAIN doc /\ FieldLt(doc, "start_date", today)
    \/ FieldIsNone(doc, "end_date") /\ FieldLt(doc, "start_date", today)

\* the filter of get_by_date_range
DateRangeFilter(doc, start_date, end_date) ==
    /\ FieldGte(doc, "start_date", IsoFormat(start_date))
    /\ FieldLte(doc, "start_date", IsoFormat(end_date))

IsLeapYear(y) == y % 4 = 0 /\ (y % 100 # 0 \/ y % 400 = 0)

DaysInMonth(y, m) ==
    IF m = 2 THEN (IF IsLeapYear(y) THEN 29 ELSE 28)
    ELSE IF m \in {4, 6, 9, 11} THEN 30 ELSE 31

\* d - timedelta(days=1)
PrevDay(d) ==
    IF d[3] > 1 THEN <<d[1], d[2], d[3] - 1>>
    ELSE IF d[2] > 1 THEN <<d[1], d[2] - 1, DaysInMonth(d[1], d[2] - 1)>>
    ELSE <<d[1] - 1, 12, 31>>

\* get_this_month_events: today.replace(day=1)
StartOfMonth(today) == <<today[1], today[2], 1>>

\* get_this_month_events: the day before the first day of the next month
EndOfMonth(today) ==
    IF today[2] = 12 THEN PrevDay(<<today[1] + 1, 1, 1>>)
    ELSE PrevDay(<<today[1], today[2] + 1, 1>>)

\* the events of the store that meet a filter
EventIds(F(_)) == {i \in DOMAIN events : F(events[i])}

\* for doc in docs: result.append(CalendarEventInDB(**doc)): the error of the
\* first document the record type refuses
RECURSIVE FirstEventError(_, _)
FirstEventError(docs, k) ==
    IF k > Len(docs) THEN NoError
    ELSE IF EventValidationError(EventParse(events[docs[k]])) # NoError
         THEN EventValidationError(EventParse(events[docs[k]]))
    ELSE FirstEventError(docs, k + 1)

\* the records a repository query answers with, CalendarEvent built from each
EventRecords(docs) == [k \in DOMAIN docs |-> CalendarEventInDB(docs[k], events[docs[k]])]

\* a repository query and the service around it: the cursor's documents,
\* each built into a record
AnswerEvents(op, limit, docs, service_error) ==
    LET e == IF FirstEventError(docs, 1) # NoError THEN FirstEventError(docs, 1)
             ELSE service_error
    IN  /\ last' = [op |-> op, limit |-> limit, err |-> e,
                    res |-> IF e = NoError THEN Some(EventRecords(docs)) ELSE None]
        /\ UNCHANGED <<events, evNext, now>>

\* the cursor of get_upcoming_events: the documents the store may answer with
UpcomingCursor(limit) ==
    {SkipLimit(order, 0, limit) :
        order \in SortedOrders(events,
                               EventIds(LAMBDA doc : UpcomingFilter(doc, IsoFormat(Today))),
                               "start_date", 1)}

\* the cursor of get_past_events_by_end_date
PastByEndDateCursor(limit) ==
    {SkipLimit(order, 0, limit) :
        order \in SortedOrders(events,
                               EventIds(LAMBDA doc : PastByEndDateFilter(doc, IsoFormat(Today))),
                               "end_date", -1)}

\* CalendarEventService.get_upcoming_events (repository get_upcoming_events)
GetUpcomingEvents(limit) ==
    \E docs \in UpcomingCursor(limit) :
        AnswerEvents("get_upcoming_events", limit, docs, NoError)

\* CalendarEventService.get_past_events (repository
\* get_past_events_by_end_date)
GetPastEvents(limit) ==
    \E docs \in PastByEndDateCursor(limit) :
        AnswerEvents("get_past_events", limit, docs, NoError)

\* CalendarEventInDB declares no address, so reading event.address raises
AddressError == "AttributeError: 'CalendarEventInDB' object has no attribute 'address'"

\* CalendarEventService.get_this_month_events (repository
\* get_this_month_events, get_by_date_range): the answer is built from
\* event.address and other attributes the record does not have
GetThisMonthEvents ==
    \E order \in SortedOrders(events,
                              EventIds(LAMBDA doc : DateRangeFilter(doc, StartOfMonth(Today),
                                                                    EndOfMonth(Today))),
                              "start_date", 1) :
        AnswerEvents("get_this_month_events", 0, order,
                     IF Len(order) > 0 THEN AddressError ELSE NoError)

\* the day changes between calls
NextDay ==
    /\ now < MaxClock
    /\ now' = now + 1
    /\ UNCHANGED <<events, evNext, last>>

QueryDates == {<<2024, 2, 10>>, <<2024, 2, 29>>}

QueryBodies ==
    {[EvBase EXCEPT !.start_date = Some(s), !.end_date = e] :
        s \in QueryDates, e \in OptionOf(QueryDates)}

QueryPatches ==
    {[end_date |-> Some(d)] : d \in QueryDates}
    \cup {[start_date |-> Some(d)] : d \in QueryDates}

NextQueries ==
    /\ UNCHANGED <<users, userNext, calls, tokens>>
    /\ UNCHANGED <<attendance, attNext, members, memNext>>
    /\ \/ \E body \in QueryBodies :
            ApiCreateEvent(body) /\ evNext' <= MaxQueryEvents + 1 /\ UNCHANGED now
       \/ \E id \in 1..MaxQueryEvents, body \in QueryPatches :
            ApiUpdateEvent(id, body) /\ UNCHANGED now
       \/ NextDay
       \/ \E limit \in 1..MaxLimit : GetUpcomingEvents(limit)
       \/ \E limit \in 1..MaxLimit : GetPastEvents(limit)
       \/ GetThisMonthEvents

SpecQueries == InitMembers /\ [][NextQueries]_vars

(***************************************************************************)
(* Bearer tokens: accounts log in and are deactivated, tokens are issued,  *)
(* refreshed and presented to the guarded endpoints, and the clock         *)
(* advances by days.  A token is the claims the server signed; a client    *)
(* can present only a token the server issued.                             *)
(***************************************************************************)
\* settings.access_token_expire_minutes (60 * 24) and
\* settings.refresh_token_expire_days, in days
AccessTokenExpireDays == 1
RefreshTokenExpireDays == 30

\* create_access_token at time t: the data and exp
CreateAccessToken(data, t) ==
    [c \in DOMAIN data \cup {"exp"} |-> IF c = "exp" THEN t + AccessTokenExpireDays ELSE data[c]]

\* create_refresh_token at time t: the data, exp and the type "refresh"
CreateRefreshToken(data, t) ==
    [c \in DOMAIN data \cup {"exp", "type"} |->
        IF c = "exp" THEN t + RefreshTokenExpireDays
        ELSE IF c = "type" THEN "refresh" ELSE data[c]]

\* jwt.decode raises JWTError: the signature is the server's, so only on a
\* token whose exp has passed
JwtExpired(token, t) == token.exp < t

\* payload.get(c)
ClaimOf(token, c) == IF c \in DOMAIN token THEN Some(token[c]) ELSE None

\* verify_refresh_token: the user id, or None
VerifyRefreshToken(token, t) ==
    IF JwtExpired(token, t) THEN None
    ELSE IF ClaimOf(token, "sub") = None \/ ClaimOf(token, "type") # Some("refresh") THEN None
    ELSE ClaimOf(token, "sub")

CredentialsError == "401: Could not validate credentials"
InactiveUserError == "400: Inactive user"
NotEnoughPermissionsError == "403: Not enough permissions"
IncorrectLoginError == "401: Incorrect email or password"
DeactivatedLoginError == "401: Your account has been deactivated. Please contact support."
InvalidRefreshTokenError == "401: Invalid refresh token"
RefreshUserNotFoundError == "401: User not found"

\* UserService.get_user_by_id
GetUserById(id) ==
    IF id \notin DOMAIN users THEN [err |-> NoError, res |-> None]
    ELSE IF UserInDBError(users[id]) # NoError
         THEN [err |-> UserInDBError(users[id]), res |-> None]
    ELSE [err |-> NoError, res |-> Some(User(UserInDB(id, users[id], now), now))]

\* get_current_user: the user of the token's sub, or the error raised
GetCurrentUser(token) ==
    IF JwtExpired(token, now) \/ ClaimOf(token, "sub") = None
    THEN [err |-> CredentialsError, res |-> None]
    ELSE LET found == GetUserById(token.sub)
         IN  IF found.err # NoError THEN found
             ELSE IF found.res = None THEN [err |-> CredentialsError, res |-> None]
             ELSE found

\* get_current_active_user
GetCurrentActiveUser(token) ==
    LET current_user == GetCurrentUser(token)
    IN  IF current_user.err # NoError THEN current_user
        ELSE IF ~current_user.res[1].is_active
             THEN [err |-> InactiveUserError, res |-> None]
        ELSE current_user

\* get_current_admin_user
GetCurrentAdminUser(token) ==
    LET current_user == GetCurrentActiveUser(token)
    IN  IF current_user.err # NoError THEN current_user
        ELSE IF ~current_user.res[1].is_admin
             THEN [err |-> NotEnoughPermissionsError, res |-> None]
        ELSE current_user

\* get_current_user_from_cookie, the token read from the cookie or from the
\* Authorization header: the user, or None
GetCurrentUserFromCookie(token) ==
    IF JwtExpired(token, now) \/ ClaimOf(token, "sub") = None
    THEN [err |-> NoError, res |-> None]
    ELSE GetUserById(token.sub)

\* POST /api/auth/login
Login(email, password) ==
    /\ \E found \in FindOne(UserIdsByEmail(users, email)) :
          IF found = None
          THEN /\ last' = [op |-> "login", arg |-> <<email, password>>,
                           err |-> IncorrectLoginError, res |-> None]
               /\ UNCHANGED tokens
          ELSE LET user == UserInDB(found[1], users[found[1]], now)
               IN  IF ~user.is_active
                   THEN /\ last' = [op |-> "login", arg |-> <<email, password>>,
                                    err |-> DeactivatedLoginError, res |-> None]
                        /\ UNCHANGED tokens
                   ELSE IF ~VerifyPassword(password, user.hashed_password)
                   THEN /\ last' = [op |-> "login", arg |-> <<email, password>>,
                                    err |-> IncorrectLoginError, res |-> None]
                        /\ UNCHANGED tokens
                   ELSE LET access_token == CreateAccessToken([sub |-> user.id], now)
                            refresh_token == CreateRefreshToken([sub |-> user.id], now)
                        IN  /\ tokens' = tokens \cup {access_token, refresh_token}
                            /\ last' = [op |-> "login", arg |-> <<email, password>>,
                                        err |-> NoError,
                                        res |-> Some([access_token |-> access_token,
                                                      refresh_token |-> refresh_token])]
    /\ UNCHANGED <<users, userNext, now>>

\* POST /api/auth/refresh
RefreshAccessToken(token) ==
    /\ LET user_id == VerifyRefreshToken(token, now)
           found == IF user_id = None THEN [err |-> NoError, res |-> None]
                    ELSE GetUserById(user_id[1])
       IN  IF user_id = None
           THEN /\ last' = [op |-> "refresh", arg |-> token,
                            err |-> InvalidRefreshTokenError, res |-> None]
                /\ UNCHANGED tokens
           ELSE IF found.err # NoError \/ found.res = None
           THEN /\ last' = [op |-> "refresh", arg |-> token,
                            err |-> IF found.err # NoError THEN found.err
                                    ELSE RefreshUserNotFoundError,
                            res |-> None]
                /\ UNCHANGED tokens
           ELSE LET new_access_token == CreateAccessToken([sub |-> found.res[1].id], now)
                IN  /\ tokens' = tokens \cup {new_access_token}
                    /\ last' = [op |-> "refresh", arg |-> token, err |-> NoError,
                                res |-> Some([access_token |-> new_access_token])]
    /\ UNCHANGED <<users, userNext, now>>

\* a call of an endpoint guarded by a dependency or a decorator: what the
\* guard answers for the token presented
Guarded(op, token, answer) ==
    /\ last' = [op |-> op, arg |-> token, err |-> answer.err, res |-> answer.res]
    /\ UNCHANGED <<users, userNext, tokens, now>>

\* the endpoints of members, attendance, events, auth/me and auth/profile:
\* Depends(get_current_user)
BearerEndpoint(token) == Guarded("get_current_user", token, GetCurrentUser(token))

\* the endpoints of admin: Depends(get_current_admin_user)
AdminEndpoint(token) == Guarded("get_current_admin_user", token, GetCurrentAdminUser(token))

\* the web routes under require_active_user: the page is served to the user
\* of the cookie's token when there is one and it is active
WebRoute(token) ==
    LET current_user == GetCurrentUserFromCookie(token)
    IN  Guarded("require_active_user", token,
                IF current_user.err = NoError /\ current_user.res # None
                   /\ ~current_user.res[1].is_active
                THEN [err |-> NoError, res |-> None] ELSE current_user)

TokenUserDrafts(t) ==
    {PostInit([email |-> Some(e), username |-> Some("ann"), password |-> OldPassword,
               is_active |-> TRUE, is_admin |-> a,
               created_at |-> t, updated_at |-> t], t) :
        e \in UserEmails, a \in BOOLEAN}

NextTokens ==
    /\ UNCHANGED <<attendance, attNext, members, memNext, events, evNext, calls>>
    /\ \/ \E draft \in TokenUserDrafts(now) :
            /\ CreateUser(draft, "salt1") /\ userNext' <= MaxTokenUsers + 1
            /\ UNCHANGED <<tokens, now>>
       \/ \E id \in 1..MaxTokenUsers : DeleteUser(id) /\ UNCHANGED <<tokens, now>>
       \/ \E email \in UserEmails, password \in {OldPassword, NewPassword} :
            Login(email, password) /\ Cardinality(tokens') <= MaxTokens
       \/ \E token \in tokens :
            RefreshAccessToken(token) /\ Cardinality(tokens') <= MaxTokens
       \/ \E token \in tokens : BearerEndpoint(token)
       \/ \E token \in tokens : AdminEndpoint(token)
       \/ \E token \in tokens : WebRoute(token)
       \/ now < MaxClock /\ now' = now + 1 /\ UNCHANGED <<users, userNext, tokens, last>>

SpecTokens == InitMembers /\ [][NextTokens]_vars

(***************************************************************************)
(* Birthdays: members are stored with their dates of birth, the clock      *)
(* advances by days, and the repository's birthday queries read the store. *)
(***************************************************************************)
\* f"^{today.year:04d}-{today.month:02d}-": the first characters of the ISO
\* text of today, up to and with the second dash
MonthPrefixLength == 8
MonthPrefix(today) == SubSeq(IsoFormat(today), 1, MonthPrefixLength)

\* {"date_of_birth": {"$regex": "^" + prefix}}: a stored text that starts
\* with the prefix
BirthdayThisMonthFilter(doc, today) ==
    /\ "date_of_birth" \in DOMAIN doc /\ doc.date_of_birth # None
    /\ Len(doc.date_of_birth[1]) >= MonthPrefixLength
    /\ SubSeq(doc.date_of_birth[1], 1, MonthPrefixLength) = MonthPrefix(today)

\* {"date_of_birth": {"$regex": "^YYYY-MM-DD$"}}: a stored text equal to the
\* ISO text of today
BirthdayTodayFilter(doc, today) ==
    /\ "date_of_birth" \in DOMAIN doc /\ doc.date_of_birth # None
    /\ doc.date_of_birth[1] = IsoFormat(today)

\* Member.is_birthday_today
IsBirthdayToday(member, today) ==
    /\ member.date_of_birth # None
    /\ member.date_of_birth[1][2] = today[2]
    /\ member.date_of_birth[1][3] = today[3]

\* Member.is_birthday_this_month
IsBirthdayThisMonth(member, today) ==
    /\ member.date_of_birth # None
    /\ member.date_of_birth[1][2] = today[2]

\* a birthday query: the matching documents in the store's order, each
\* built into a MemberInDB
AnswerMembers(op, ids) ==
    LET docs == IdsInOrder(ids)
        failed == {k \in DOMAIN docs : MemberInDBError(members[docs[k]]) # NoError}
    IN  /\ last' = [op |-> op, err |-> IF failed = {} THEN NoError ELSE MemberValidationError,
                    res |-> IF failed = {}
                            THEN Some([k \in DOMAIN docs |->
                                         MemberInDB(docs[k], members[docs[k]], now)])
                            ELSE None]
        /\ UNCHANGED <<members, memNext, now>>

\* MemberRepository.get_birthdays_today
GetBirthdaysToday ==
    AnswerMembers("get_birthdays_today",
                  {i \in DOMAIN members : BirthdayTodayFilter(members[i], Today)})

\* MemberRepository.get_birthdays_this_month
GetBirthdaysThisMonth ==
    AnswerMembers("get_birthdays_this_month",
                  {i \in DOMAIN members : BirthdayThisMonthFilter(members[i], Today)})

BirthDates == {<<1990, 2, 28>>, <<1990, 3, 1>>, <<2024, 2, 28>>}

\* the MemberCreate models that exist at time t: validate_date_not_future
\* refuses a date of birth after today
BirthdayDrafts(t) ==
    {PostInit([email |-> None, phone |-> Some("555-0100"), is_active |-> TRUE,
               status |-> Some(MemberStatus.MEMBER), date_of_birth |-> b,
               created_at |-> t, updated_at |-> t], t) :
        b \in {None} \cup {Some(d) : d \in {x \in BirthDates : ~DateLt(DateOfDay(t), x)}}}

NextBirthdays ==
    /\ UNCHANGED <<users, userNext, calls, tokens>>
    /\ UNCHANGED <<attendance, attNext, events, evNext>>
    /\ \/ Tick
       \/ \E draft \in BirthdayDrafts(now) :
            MemberRepoCreate(draft) /\ memNext' <= MaxMembers + 1 /\ UNCHANGED now
       \/ GetBirthdaysToday
       \/ GetBirthdaysThisMonth

SpecBirthdays == InitMembers /\ [][NextBirthdays]_vars

(***************************************************************************)
(* The frame specification: members stored through the repository, then    *)
(* updated and deleted by the text of an id.                               *)
(***************************************************************************)
\* MemberRepository.update (BaseRepository.update) called with the text of
\* an id and a MemberUpdate built now from the given fields
MemberRepoUpdateByText(text, given) ==
    LET obj_dict == MemberDump(UpdateSchema(given, now))
        found == IdsByObjectId(members, text)
    IN  IF ~ObjectIdIsValid(text)
        THEN /\ last' = [op |-> "repo_update_text", text |-> text, arg |-> given,
                         err |-> InvalidIdError, res |-> None]
             /\ UNCHANGED <<members, memNext>>
        ELSE IF found = {}
        THEN /\ last' = [op |-> "repo_update_text", text |-> text, arg |-> given,
                         err |-> NoError, res |-> None]
             /\ UNCHANGED <<members, memNext>>
        ELSE LET id == CHOOSE i \in found : TRUE
                 modified == ModifiedCount(members, id, obj_dict) = 1
             IN  /\ members' = UpdateOne(members, id, obj_dict)
                 /\ UNCHANGED memNext
                 /\ LET e == IF modified THEN MemberInDBError(members'[id]) ELSE NoError
                    IN  last' = [op |-> "repo_update_text", text |-> text, arg |-> given,
                                 err |-> e,
                                 res |-> IF modified /\ e = NoError
                                         THEN Some(MemberInDB(id, members'[id], now))
                                         ELSE None]

\* MemberRepository.delete (BaseRepository.delete) called with the text of
\* an id: whether a document was deleted
MemberRepoDeleteByText(text) ==
    LET found == IdsByObjectId(members, text)
    IN  IF ~ObjectIdIsValid(text)
        THEN /\ last' = [op |-> "repo_delete_text", text |-> text,
                         err |-> InvalidIdError, res |-> FALSE]
             /\ UNCHANGED <<members, memNext>>
        ELSE /\ members' = IF found = {} THEN members
                           ELSE DeleteOne(members, CHOOSE i \in found : TRUE)
             /\ UNCHANGED memNext
             /\ last' = [op |-> "repo_delete_text", text |-> text,
                         err |-> NoError, res |-> found # {}]

FrameDrafts(t) ==
    {PostInit([email |-> Some(e), phone |-> Some("555-010-0001"),
               is_active |-> TRUE, status |-> Some(MemberStatus.MEMBER),
               created_at |-> t, updated_at |-> t], t) :
        e \in {"ann@example.com"}}

\* the fields the caller of a MemberUpdate gives: is_active, or
\* created_at, which the schema inherits from TimestampModel
FrameGiven == {[is_active |-> FALSE], [created_at |-> 0]}

\* the texts a caller passes as an id: the identities the store gives out,
\* one it has not given out, and a text that is no identity
FrameIdTexts == {StrOfObjectId(n) : n \in 1..(MaxMembers + 1)} \cup {<<"a", "b", "c">>}

NextFrame ==
    /\ UNCHANGED <<users, userNext, calls, tokens>>
    /\ UNCHANGED <<attendance, attNext, events, evNext>>
    /\ \/ Tick
       \/ /\ UNCHANGED now
          /\ \/ \E draft \in FrameDrafts(now) :
                   MemberRepoCreate(draft) /\ memNext' <= MaxMembers + 1
             \/ \E text \in FrameIdTexts, given \in FrameGiven :
                   MemberRepoUpdateByText(text, given)
             \/ \E text \in FrameIdTexts : MemberRepoDeleteByText(text)

SpecFrame == InitMembers /\ [][NextFrame]_vars

(***************************************************************************)
(* Claims about attendance records.                                        *)
(***************************************************************************)
\* the (member, date, type) of a stored attendance document
TripleOfDoc(doc) == <<doc.member_id, ParseDate(doc.attendance_date), doc.attendance_type>>
TripleOfDraft(d) == <<d.member_id, d.attendance_date, d.attendance_type>>
HoldsTriple(coll, t) == \E i \in DOMAIN coll : TripleOfDoc(coll[i]) = t

\* C1: a create_attendance for a (member, date, type) the store holds no record
\* of succeeds, inserts one document and returns it as the draft gave it; a
\* create_attendance that immediately follows a successful one with the same
\* (member, date, type), whatever its status and notes, raises 'Attendance
\* record already exists for this service' and leaves the collection as it was.
C1_FirstCreateThenConflict ==
    [][last'.op = "create_attendance" =>
        LET d == last'.arg IN
        /\ ~HoldsTriple(attendance, TripleOfDraft(d)) =>
              /\ last'.err = NoError
              /\ Len(last'.res) = 1
              /\ LET r == last'.res[1] IN
                    /\ r.id \notin DOMAIN attendance
                    /\ DOMAIN attendance' = DOMAIN attendance \cup {r.id}
                    /\ \A i \in DOMAIN attendance : attendance'[i] = attendance[i]
                    /\ TripleOfDoc(attendance'[r.id]) = TripleOfDraft(d)
                    /\ \A f \in DOMAIN d : r[f] = d[f]
        /\ (/\ last.op = "create_attendance"
            /\ last.err = NoError
            /\ TripleOfDraft(last.arg) = TripleOfDraft(d)) =>
              /\ last'.err = AttendanceExistsError
              /\ last'.res = None
              /\ attendance' = attendance]_vars

\* C2: the attendance collection holds at most one record per (member, date,
\* type) after any sequence of create, update and delete calls.
C2_OneRecordPerTriple ==
    \A i, j \in DOMAIN attendance :
        i # j => TripleOfDoc(attendance[i]) # TripleOfDoc(attendance[j])
\* the number of member m's stored records with the given status whose date
\* lies between start and end, both included
InRangeCount(m, start, end, status) ==
    Cardinality({i \in DOMAIN attendance :
        /\ attendance[i].member_id = m
        /\ DateLeq(start, ParseDate(attendance[i].attendance_date))
        /\ DateLeq(ParseDate(attendance[i].attendance_date), end)
        /\ attendance[i].status = status})

\* C8: the member summary reports, for the member's records dated within
\* [start, end], the number present, absent, late and excused, their sum as
\* total_services, and as attendance_rate present / total * 100, or 0 when
\* the total is 0; other members' records and records outside the range do
\* not count.
C8_MemberSummaryCounts ==
    last.op = "get_member_attendance_summary" =>
        LET a == last.arg
            r == last.res[1]
            p == InRangeCount(a.member_id, a.start_date, a.end_date, "present")
            ab == InRangeCount(a.member_id, a.start_date, a.end_date, "absent")
            l == InRangeCount(a.member_id, a.start_date, a.end_date, "late")
            e == InRangeCount(a.member_id, a.start_date, a.end_date, "excused")
        IN  /\ r.present_count = p
            /\ r.absent_count = ab
            /\ r.late_count = l
            /\ r.excused_count = e
            /\ r.total_services = p + ab + l + e
            /\ IF p + ab + l + e = 0
               THEN r.attendance_rate = <<0, 1>>
               ELSE r.attendance_rate[1] * (p + ab + l + e) = 100 * p * r.attendance_rate[2]

\* C8's case: a summary over a range that holds records of the member with two
\* statuses, while the store also holds a record that must not count: one of
\* the member outside the range, or one of another member inside it
C8_Witness ==
    /\ last.op = "get_member_attendance_summary"
    /\ last.res[1].present_count >= 1
    /\ last.res[1].total_services > last.res[1].present_count
    /\ \E i \in DOMAIN attendance :
        LET d == ParseDate(attendance[i].attendance_date) IN
        \/ /\ attendance[i].member_id = last.arg.member_id
           /\ ~(DateLeq(last.arg.start_date, d) /\ DateLeq(d, last.arg.end_date))
        \/ /\ attendance[i].member_id # last.arg.member_id
           /\ DateLeq(last.arg.start_date, d) /\ DateLeq(d, last.arg.end_date)

(***************************************************************************)
(* Claims about members.                                                   *)
(***************************************************************************)
HoldsEmail(coll, email) == \E i \in DOMAIN coll : coll[i].email = email
HoldsPhone(coll, phone) == \E i \in DOMAIN coll : coll[i].phone = phone

\* C3: a create_member whose draft carries the email of a stored member,
\* active or inactive, fails with 'Email already registered' and leaves the
\* store as it was; a create_member whose email and phone no stored member
\* holds succeeds, and the store gains exactly the draft under a new identity.
C3_CreateMemberEmailConflict ==
    [][\A draft \in MemDrafts :
          (last'.op = "create_member" /\ last'.arg = draft /\ draft.email # None) =>
              IF HoldsEmail(members, draft.email)
              THEN last'.err = EmailTakenError /\ members' = members
              ELSE ~HoldsPhone(members, draft.phone) =>
                      /\ last'.err = NoError
                      /\ DOMAIN members' = DOMAIN members \cup {memNext}
                      /\ memNext \notin DOMAIN members
                      /\ members'[memNext] = draft
                      /\ \A i \in DOMAIN members : members'[i] = members[i]
                      /\ last'.res[1].id = memNext]_vars

\* a create_member has just been refused for an email whose holder is
\* inactive, and another member, created with a fresh email, is stored
C3_Witness ==
    /\ last.op = "create_member" /\ last.err = EmailTakenError
    /\ \E i \in DOMAIN members :
          members[i].email = last.arg.email /\ members[i].is_active = FALSE
    /\ \E j \in DOMAIN members : members[j].email \notin {None, last.arg.email}

\* C4, the invariant: no two stored members share a non-null email, and no
\* two share a non-null phone.
C4_UniqueEmailAndPhone ==
    \A i, j \in DOMAIN members :
        i # j => /\ (members[i].email # None => members[i].email # members[j].email)
                 /\ (members[i].phone # None => members[i].phone # members[j].phone)

\* C4: an update_member of a stored member X whose patch carries an email or
\* a phone held by a different stored member Y is refused with the conflict
\* error of that field, and the store is left as it was.
C4_ConflictingUpdateRejected ==
    [][\A id \in DOMAIN members, patch \in MemPatches :
          (/\ last'.op = "update_member" /\ last'.id = id /\ last'.arg = patch
           /\ \/ /\ PatchValue(patch, "email") # None
                 /\ \E y \in DOMAIN members \ {id} : members[y].email = patch.email
              \/ /\ PatchValue(patch, "phone") # None
                 /\ \E y \in DOMAIN members \ {id} : members[y].phone = patch.phone)
          => /\ last'.err \in {EmailTakenError, PhoneTakenError}
             /\ members' = members]_vars

\* C6: a delete_member of a stored member answers true, leaves the document
\* stored with is_active false, and the member is in neither active listing.
C6_DeleteMemberDeactivates ==
    [][\A id \in DOMAIN members :
          (last'.op = "delete_member" /\ last'.id = id)
          => /\ last'.err = NoError
             /\ last'.res = TRUE
             /\ id \in DOMAIN members'
             /\ members'[id].is_active = FALSE
             /\ id \notin RepoGetActiveMembers(members')
             /\ id \notin ServiceGetActiveMembers(members')]_vars

\* every field of the draft other than updated_at is in the record, unchanged
FieldsEqualDraft(record, draft) ==
    \A f \in DOMAIN draft \ {"updated_at"} : record[f] = draft[f]

RoundTripHolds(created, read) ==
    (/\ last.op = created /\ last.err = NoError
     /\ last'.op = read /\ last'.id = last.res[1].id)
    => /\ last'.err = NoError /\ last'.res # None
       /\ last'.res[1].id \in DOMAIN members
       /\ FieldsEqualDraft(last'.res[1], last.arg)
       /\ last'.res[1].updated_at >= last'.res[1].created_at

\* C5: a read by identity that follows a create of a member, by the
\* repository's create and get_by_id or by the service's create_member and
\* get_member_by_id, answers a record that carries every field of the draft
\* unchanged, the identity of a stored document, and updated_at >= created_at.
C5_CreateThenGetRoundTrip ==
    [][/\ RoundTripHolds("repo_create", "repo_get_by_id")
       /\ RoundTripHolds("create_member", "get_member_by_id")]_vars

\* the part of C5 that the code keeps: the round trip through the repository
C5_RepositoryRoundTrip ==
    [][RoundTripHolds("repo_create", "repo_get_by_id")]_vars

PageIds(res) == [k \in DOMAIN res[1] |-> res[1][k].id]

\* C7: of two get_many calls in a row with the same filter, sort field and
\* sort order, the first with skip 0 and limit N and the second with skip N
\* and limit N, the pages have no identity in common and at most N records
\* each, and the first page followed by the second is the first 2N entries
\* of a sorted order of the matching documents.
PagesCover(first, second, filter_dict, sort_by, sort_order, limit) ==
    /\ Len(first) <= limit /\ Len(second) <= limit
    /\ \A k \in DOMAIN first, l \in DOMAIN second : first[k] # second[l]
    /\ \E order \in SortedOrders(members,
                                 {i \in DOMAIN members : Matches(members[i], filter_dict)},
                                 sort_by, IF sort_order = "asc" THEN 1 ELSE -1) :
          first \o second = SkipLimit(order, 0, 2 * limit)

TwoPagesInARow ==
    /\ last.op = "get_many" /\ last'.op = "get_many"
    /\ last.skip = 0 /\ last'.skip = last.limit /\ last'.limit = last.limit
    /\ last'.filter_dict = last.filter_dict /\ last'.sort_by = last.sort_by
    /\ last'.sort_order = last.sort_order
    /\ last.err = NoError /\ last'.err = NoError

C7_TwoPagesCoverFirst2N ==
    [][TwoPagesInARow =>
          PagesCover(PageIds(last.res), PageIds(last'.res), last.filter_dict,
                     last.sort_by, last.sort_order, last.limit)]_vars

\* the part of C7 that the code keeps: the same, when no two of the matching
\* documents have equal values of the sort field
C7_DistinctKeysPaging ==
    [][(/\ TwoPagesInARow
        /\ \A i, j \in DOMAIN members :
              (/\ i # j /\ Matches(members[i], last.filter_dict)
               /\ Matches(members[j], last.filter_dict))
              => members[i][last.sort_by] # members[j][last.sort_by])
       => PagesCover(PageIds(last.res), PageIds(last'.res), last.filter_dict,
                     last.sort_by, last.sort_order, last.limit)]_vars

(***************************************************************************)
(* Claims about calendar events.                                           *)
(***************************************************************************)
\* the body was made a CalendarEventCreate and create_event was called
CreateEventCalled == evNext' = evNext + 1

\* C9: a create whose end_date is earlier than its start_date is refused; a
\* create whose end_date equals its start_date, with no other fault, is
\* accepted and stored; a create with both times whose end_time is not after
\* its start_time is refused; and create_event is never called with an event
\* out of either order.
C9_CreateEventOrderings ==
    [][last'.op = "create_event" =>
             LET body == last'.arg
                 datesOutOfOrder ==
                     body.end_date # None /\ DateLt(body.end_date[1], body.start_date[1])
                 timesOutOfOrder ==
                     /\ body.start_time # None /\ body.end_time # None
                     /\ ~TimeLt(body.start_time[1], body.end_time[1])
             IN  /\ datesOutOfOrder => last'.err = EndDateError /\ events' = events
                 /\ timesOutOfOrder => last'.err # NoError /\ events' = events
                 /\ (body.end_date = body.start_date /\ ~timesOutOfOrder
                        /\ body.color = None)
                       => /\ last'.err = NoError /\ CreateEventCalled
                          /\ events'[evNext] = EventDump(body)
                 /\ CreateEventCalled => ~datesOutOfOrder /\ ~timesOutOfOrder]_vars

\* a create has just been refused for its end time equal to its start time,
\* while an event whose end date is its start date is stored
C9_Witness ==
    /\ last.op = "create_event" /\ last.err = EndTimeError
    /\ last.arg.end_time = last.arg.start_time
    /\ \E i \in DOMAIN events : events[i].end_date = events[i].start_date

HexDigits ==
    {"0", "1", "2", "3", "4", "5", "6", "7", "8", "9",
     "a", "b", "c", "d", "e", "f", "A", "B", "C", "D", "E", "F"}

\* '#' followed by exactly six hexadecimal digits
IsHexColor(c) == Len(c) = 7 /\ c[1] = "#" /\ \A k \in 2..7 : c[k] \in HexDigits

\* C10: a create or an update that carries a colour is refused for its
\* colour exactly when the colour is not '#' followed by six hexadecimal
\* digits.
C10_ColorAcceptedIffHex ==
    [][(/\ last'.op \in {"create_event", "update_event"}
        /\ "color" \in DOMAIN last'.arg /\ last'.arg.color # None)
       => (last'.err \in {ColorFormatError, ColorLengthError}
             <=> ~IsHexColor(last'.arg.color[1]))]_vars

(***************************************************************************)
(* Claims about dates, patches and identities.                             *)
(***************************************************************************)
\* C11: a create or an update whose attendance_date is after the current day
\* is refused with 'Attendance date cannot be in the future' and the store is
\* left as it was; one dated the current day or earlier is not refused for
\* its date; and no stored record is dated after the current day.
C11_NoFutureAttendanceDate ==
    [][/\ (/\ now' = now /\ last'.op \in {"create_attendance", "update_attendance"}
           /\ "attendance_date" \in DOMAIN last'.arg)
          => IF DateLt(DateOfDay(now), last'.arg.attendance_date)
             THEN last'.err = FutureDateError /\ attendance' = attendance
             ELSE last'.err # FutureDateError
       /\ \A id \in DOMAIN attendance' :
             DateLeq(ParseDate(attendance'[id].attendance_date), DateOfDay(now'))]_vars

\* a create dated the day after the current day has just been refused, while
\* a record dated the current day, written after the first day, is stored
C11_Witness ==
    /\ now > 0
    /\ last.op = "create_attendance" /\ last.err = FutureDateError
    /\ last.arg.attendance_date = DateOfDay(now + 1)
    /\ \E id \in DOMAIN attendance :
          attendance[id].attendance_date = IsoFormat(DateOfDay(now))

InsightOps ==
    {"LocalAIService.generate", "GeminiService.generate",
     "MemberInsightService.generate_member_insights"}
TagOps == {"LocalTagService.generate_tags", "GeminiTagService.generate_tags"}

\* the class of the outcome the called backend had
OutcomeClass(call) ==
    IF call.op # "MemberInsightService.generate_member_insights" THEN call.arg.class
    ELSE IF call.arg.ai_service = "gemini" /\ call.arg.gemini.class # "unavailable"
         THEN call.arg.gemini.class
    ELSE call.arg.local.class

\* C12: whatever the outcome of the backend, an insight adapter answers a
\* text and a tag adapter a list, and neither raises; on every outcome but
\* success the answer is the fallback text, or the empty list.
C12_AdaptersNeverRaise ==
    /\ last.op \in InsightOps =>
          /\ last.err = NoError /\ TypeOf(last.res) = "str"
          /\ OutcomeClass(last) # "success" => last.res = FallbackText
    /\ last.op \in TagOps =>
          /\ last.err = NoError /\ TypeOf(last.res) = "list"
          /\ OutcomeClass(last) # "success" => last.res = PyList(<<>>)

\* the insight service, asked for Gemini, which is not configured, has
\* fallen back on the local backend, which answered 503, and has answered
\* the fallback text
C12_Witness ==
    /\ last.op = "MemberInsightService.generate_member_insights"
    /\ last.arg.ai_service = "gemini" /\ last.arg.gemini.kind = "not configured"
    /\ last.arg.local.kind = "response" /\ last.arg.local.status = 503
    /\ last.res = FallbackText

\* a repository update of a stored document, in a step of the store's own
PatchedStep(id) ==
    /\ now' = now /\ last'.op = "repo_update" /\ last'.id = id
    /\ id \in DOMAIN members

\* the patched document has the fields it had and those of the patch; the
\* given fields hold the given values, a null included; the fields outside
\* written hold what they held
WritesExactly(id, given, written) ==
    /\ DOMAIN members'[id] = DOMAIN members[id] \cup DOMAIN given
    /\ \A f \in DOMAIN given : members'[id][f] = given[f]
    /\ \A f \in DOMAIN members[id] \ written : members'[id][f] = members[id][f]

\* C13, as stated: an update of a stored document writes the fields its
\* caller set, null or not, and every other stored field keeps its value.
C13_UpdateWritesOnlyGivenFields ==
    [][\A id \in DOMAIN members :
          PatchedStep(id) => WritesExactly(id, last'.arg, DOMAIN last'.arg)]_vars

\* C13, amended: an update of a stored document writes the fields its caller
\* set, null or not, and updated_at, which becomes the time the patch was
\* built; every other stored field keeps its value.
C13_UpdateWritesGivenFieldsAndUpdatedAt ==
    [][\A id \in DOMAIN members :
          PatchedStep(id) =>
             /\ WritesExactly(id, last'.arg, DOMAIN last'.arg \cup {"updated_at"})
             /\ members'[id].updated_at = IsoDateTime(now)]_vars

\* an update that set email to null has just been applied to a document
\* created earlier: the email is null, is_active is as it was created, and
\* updated_at is later than created_at
C13_Witness ==
    /\ last.op = "repo_update" /\ last.arg = [email |-> None]
    /\ last.id \in DOMAIN members
    /\ members[last.id].email = None /\ members[last.id].is_active = TRUE
    /\ ParseDateTime(members[last.id].updated_at) > ParseDateTime(members[last.id].created_at)

\* C19: an update whose caller set no field writes nothing to a stored
\* document, updated_at included, and returns the record as get_by_id reads it.
C19_EmptyPatchIsNoOp ==
    [][\A id \in DOMAIN members :
          PatchedStep(id) /\ DOMAIN last'.arg = {} =>
             /\ members' = members
             /\ last'.res = Some(MemberInDB(id, members[id], now))]_vars

\* C20: get_by_id never raises: for a text that is no identity, or the
\* identity of no stored document, it returns None, and for the identity of a
\* stored document it returns that document with the identity's text as id.
C20_GetByIdReturnsNoneOrRecord ==
    last.op = "repo_get_by_id_text" =>
        /\ last.err = NoError
        /\ LET found == IdsByObjectId(members, last.arg)
           IN  IF found = {} THEN last.res = None
               ELSE /\ last.res # None
                    /\ last.res[1].id = Lower(last.arg)
                    /\ \E i \in found : last.res[1].email = members[i].email

(***************************************************************************)
(* Claims about user accounts.                                             *)
(***************************************************************************)
\* a hash is the hash of a password: of its first 72 bytes
HashMatches(password, hashed_password) == hashed_password[3] = Truncate(password)

UsersHoldEmail(coll, email) == \E i \in DOMAIN coll : coll[i].email = email
UsersHoldUsername(coll, username) == \E i \in DOMAIN coll : coll[i].username = username

UniqueEmailsAndUsernames ==
    \A i, j \in DOMAIN users :
        i # j => users[i].email # users[j].email /\ users[i].username # users[j].username

Authenticates(email, password) ==
    {i \in DOMAIN users :
        /\ users[i].email = Some(email)
        /\ users[i].is_active
        /\ HashMatches(password, users[i].hashed_password)}

\* authenticate_user returns a user exactly when an active user of that
\* email has that password's hash, and then returns that user
AuthenticateIff ==
    last.op = "authenticate_user" =>
        LET ok == Authenticates(last.arg[1], last.arg[2])
        IN  /\ last.err = NoError
            /\ (last.res # None) <=> (ok # {})
            /\ last.res # None =>
                  /\ last.res[1].id \in ok
                  /\ last.res[1].hashed_password = users[last.res[1].id].hashed_password
                  /\ last.res[1].username = users[last.res[1].id].username

C14_PasswordChange ==
    [][last'.op = "update_user_profile" /\ last'.id \in DOMAIN users
          /\ "new_password" \in DOMAIN last'.arg =>
          LET given == last'.arg
              id == last'.id
              current == IF "current_password" \in DOMAIN given
                         THEN given.current_password ELSE None
          IN  IF current = None \/ current = Some(<< >>)
              THEN last'.err = CurrentPasswordRequiredError /\ users' = users
              ELSE IF ~HashMatches(current[1], users[id].hashed_password)
              THEN last'.err = InvalidCurrentPasswordError /\ users' = users
              ELSE last'.res # None =>
                      /\ HashMatches(given.new_password[1], users'[id].hashed_password)
                      /\ ~HashMatches(current[1], users'[id].hashed_password)]_vars

(***************************************************************************)
(* Claims about calls in flight together.                                  *)
(***************************************************************************)
\* two finished calls that inserted, each after a check that saw neither
\* insert: both checks came before either insert
Raced(p, q, op) ==
    /\ p # q
    /\ At(p, op, "done") /\ At(q, op, "done")
    /\ calls[p].id # 0 /\ calls[q].id # 0
    /\ calls[p].id \notin calls[q].seen /\ calls[q].id \notin calls[p].seen

\* C17: two create_attendance calls for one (member, date, type) whose
\* checks both came before either insert both succeed, and the store holds a
\* record of that triple for each; two such create_member calls with one
\* email store a member of that email for each.
C17_RacingCreatesBothStored ==
    \A p, q \in DOMAIN calls :
        /\ Raced(p, q, "create_attendance")
              /\ TripleOfDraft(calls[p].arg) = TripleOfDraft(calls[q].arg)
           => /\ calls[p].err = NoError /\ calls[q].err = NoError
              /\ TripleOfDoc(attendance[calls[p].id]) = TripleOfDoc(attendance[calls[q].id])
        /\ Raced(p, q, "create_member") /\ calls[p].arg.email = calls[q].arg.email
           => /\ members[calls[p].id].email = calls[p].arg.email
              /\ members[calls[q].id].email = calls[p].arg.email

(***************************************************************************)
(* Claims about backup and restore.                                        *)
(***************************************************************************)
\* the pairs of an uploaded object that name a collection with a list value
ListedFor(data, name) ==
    {k \in DOMAIN data : data[k][1] = name /\ TypeOf(data[k][2]) = "list"}

\* after a restore that succeeded, a collection the upload names with a list
\* holds the listed documents, without their _id and under identities it did
\* not hold before, and nothing else; a collection it does not name is as it
\* was
RestoreReplaces(data) ==
    \A name \in CollectionNames :
        IF ListedFor(data, name) = {} THEN Db'[name].coll = Db[name].coll
        ELSE LET k == CHOOSE k \in ListedFor(data, name) : TRUE
                 docs == ValueOf(data[k][2])
             IN  /\ DocsOf(Db'[name].coll) = [n \in DOMAIN docs |-> PopId(ValueOf(docs[n]))]
                 /\ DOMAIN Db'[name].coll \cap DOMAIN Db[name].coll = {}

\* every collection holds the documents it held, field for field
SameDocuments == \A name \in CollectionNames : DocsOf(Db'[name].coll) = DocsOf(Db[name].coll)

SummaryDocs ==
    IF last.op = "repo_member_summary"
    THEN {i \in DOMAIN attendance :
            /\ attendance[i].member_id = last.arg.member_id
            /\ DateLeq(last.arg.start_date, ParseDate(attendance[i].attendance_date))
            /\ DateLeq(ParseDate(attendance[i].attendance_date), last.arg.end_date)}
    ELSE {i \in DOMAIN attendance :
            /\ ParseDate(attendance[i].attendance_date) = last.arg.attendance_date
            /\ attendance[i].attendance_type = last.arg.attendance_type}

\* the total and the four counters of the summary just returned
SummaryCounters ==
    LET r == last.res[1]
    IN  IF last.op = "repo_member_summary"
        THEN [total |-> r.total_services, present |-> r.present_count,
              absent |-> r.absent_count, late |-> r.late_count,
              excused |-> r.excused_count, rate |-> r.attendance_rate]
        ELSE [total |-> r.total_members, present |-> r.present_members,
              absent |-> r.absent_members, late |-> r.late_members,
              excused |-> r.excused_members, rate |-> r.attendance_rate]

WithStatus(ids, st) == Cardinality({i \in ids : attendance[i].status = st})

\* C21: in both summaries the total counts every matched record, each of the
\* four counters counts the matched records of its status, so that the total
\* is at least their sum and equals it exactly when every matched record has
\* one of the four statuses; the rate is present / total * 100, and 0 for no
\* record.
C21_UnrecognizedStatusOnlyInTotal ==
    last.op \in {"repo_member_summary", "repo_service_summary"} =>
        LET c == SummaryCounters
            ids == SummaryDocs
            sum == c.present + c.absent + c.late + c.excused
        IN  /\ c.total = Cardinality(ids)
            /\ c.present = WithStatus(ids, "present")
            /\ c.absent = WithStatus(ids, "absent")
            /\ c.late = WithStatus(ids, "late")
            /\ c.excused = WithStatus(ids, "excused")
            /\ c.total >= sum
            /\ (c.total = sum) <=>
                  (\A i \in ids : attendance[i].status \in {"present", "absent", "late", "excused"})
            /\ c.rate = IF c.total > 0 THEN Ratio(c.present * 100, c.total) ELSE Ratio(0, 1)

\* a service summary over records of which one is present and one has a
\* status that is none of the four: the counters sum to
\* less than the total
C21_Witness ==
    /\ last.op = "repo_service_summary"
    /\ last.res[1].present_members >= 1
    /\ last.res[1].total_members >
          last.res[1].present_members + last.res[1].absent_members
            + last.res[1].late_members + last.res[1].excused_members

\* the events the past-events query is said to answer with: those with an
\* end date before today, and those without one that started before today
SaidPast(doc, today) ==
    LET e == EventParse(doc)
    IN  IF e.end_date # None THEN DateLt(e.end_date[1], today)
        ELSE DateLt(e.start_date[1], today)

QueryStep(op) == last'.op = op /\ now' = now /\ events' = events

\* C22: the past-events query answers with exactly the events that ended
\* before today, or that have no end date and started before today, ordered
\* by end date descending and cut to the limit
C22_PastEventsByEndDate ==
    [][QueryStep("get_past_events") =>
          /\ last'.err = NoError
          /\ LET res == last'.res[1]
                 said == {i \in DOMAIN events : SaidPast(events[i], Today)}
             IN  /\ {res[k].id : k \in DOMAIN res} \subseteq said
                 /\ Len(res) = Min(last'.limit, Cardinality(said))
                 /\ \A k, l \in DOMAIN res :
                       (k < l /\ res[l].end_date # None) =>
                          /\ res[k].end_date # None
                          /\ DateLeq(res[l].end_date[1], res[k].end_date[1])]_vars

\* C23: the month query answers without error with exactly the events that
\* start between the first and the last day of the current month, in
\* ascending order of their start dates
C23_ThisMonthEvents ==
    [][QueryStep("get_this_month_events") =>
          /\ last'.err = NoError
          /\ LET res == last'.res[1]
                 first == <<Today[1], Today[2], 1>>
                 final == <<Today[1], Today[2], DaysInMonth(Today[1], Today[2])>>
                 said == {i \in DOMAIN events :
                            LET d == EventParse(events[i]).start_date[1]
                            IN  DateLeq(first, d) /\ DateLeq(d, final)}
             IN  /\ {res[k].id : k \in DOMAIN res} = said
                 /\ Len(res) = Cardinality(said)
                 /\ \A k, l \in DOMAIN res :
                       k < l => DateLeq(res[k].start_date[1], res[l].start_date[1])]_vars

\* C24: every stored event ends on or after the day it starts and, when it
\* has both times, ends after the time it starts
C24_StoredEventsOrdered ==
    \A id \in DOMAIN events :
        LET e == EventParse(events[id])
        IN  /\ e.end_date # None => DateLeq(e.start_date[1], e.end_date[1])
            /\ (e.start_time # None /\ e.end_time # None)
                  => TimeLt(e.start_time[1], e.end_time[1])

\* the events a query answers with, none when it raises
ReturnedIds(docs) ==
    IF FirstEventError(docs, 1) = NoError THEN {docs[k] : k \in DOMAIN docs} ELSE {}

\* C29: on one day, no event is answered by both the upcoming query and the
\* past-events query, whatever their limits
C29_UpcomingAndPastDisjoint ==
    \A l1, l2 \in 1..MaxLimit :
        \A u \in UpcomingCursor(l1), p \in PastByEndDateCursor(l2) :
            ReturnedIds(u) \cap ReturnedIds(p) = {}

\* the upcoming query answered with an event while the store holds an event
\* that meets the filters of both queries
C29_Witness ==
    /\ last.op = "get_upcoming_events" /\ last.err = NoError
    /\ last.res # None /\ Len(last.res[1]) > 0
    /\ \A k \in DOMAIN last.res[1] : last.res[1][k].id \in DOMAIN events
    /\ \E l \in 1..MaxLimit : \E u \in UpcomingCursor(l) : ReturnedIds(u) # {}
    /\ \E i \in DOMAIN events :
          /\ UpcomingFilter(events[i], IsoFormat(Today))
          /\ PastByEndDateFilter(events[i], IsoFormat(Today))

(***************************************************************************)
(* Claims about errors, identities and the frame of a change.              *)
(***************************************************************************)
\* C25: a create_attendance that raises leaves the attendance collection as
\* it was, so that the same request, sent again, is not refused as a
\* duplicate of itself
C25_FailedCreateLeavesStore ==
    [][(last'.op = "create_attendance" /\ last'.err # NoError) =>
          /\ attendance' = attendance
          /\ ~HoldsTriple(attendance, TripleOfDraft(last'.arg))
                => ~HoldsTriple(attendance', TripleOfDraft(last'.arg))]_vars

\* the user a token names is stored and deactivated
NamesInactiveUser(token) ==
    /\ "sub" \in DOMAIN token /\ token.sub \in DOMAIN users
    /\ ~users[token.sub].is_active

IsGuardOp(op) == op \in {"get_current_user", "get_current_admin_user"}

\* C26: an endpoint guarded by a bearer token denies the token of a
\* deactivated user, also a token issued before the deactivation and not
\* yet expired
C26_InactiveUserDenied ==
    (IsGuardOp(last.op) /\ NamesInactiveUser(last.arg)) => last.err # NoError

IsAccessToken(token) == "type" \notin DOMAIN token
IsRefreshToken(token) == "type" \in DOMAIN token /\ token.type = "refresh"

\* C27: /auth/refresh never accepts a token made by create_access_token,
\* and get_current_user and get_current_user_from_cookie never accept a
\* token made by create_refresh_token
C27_TokensNotInterchangeable ==
    /\ (last.op = "refresh" /\ IsAccessToken(last.arg)) => last.err # NoError
    /\ (last.op \in {"get_current_user", "get_current_admin_user", "require_active_user"}
          /\ IsRefreshToken(last.arg))
         => (last.err # NoError \/ last.res = None)

MemberQueryStep(op) == last'.op = op /\ now' = now /\ members' = members

ReturnedMembers == {last'.res[1][k].id : k \in DOMAIN last'.res[1]}

\* C28: the birthday queries of the repository answer with a member exactly
\* when the member's own birthday predicate holds: today's query with
\* is_birthday_today, the month's query with is_birthday_this_month
C28_BirthdayQueriesAgree ==
    [][/\ MemberQueryStep("get_birthdays_today") =>
            /\ last'.err = NoError
            /\ \A i \in DOMAIN members :
                  i \in ReturnedMembers
                     <=> IsBirthdayToday(MemberInDB(i, members[i], now), Today)
       /\ MemberQueryStep("get_birthdays_this_month") =>
            /\ last'.err = NoError
            /\ \A i \in DOMAIN members :
                  i \in ReturnedMembers
                     <=> IsBirthdayThisMonth(MemberInDB(i, members[i], now), Today)]_vars

\* C30: an update or a delete by id leaves every document but the one of
\* that id, and every other collection, as they were; an update keeps the
\* identity and the stored created_at of its document; and with an id that
\* no document has, the store is unchanged, update returns None and delete
\* returns False
C30_UpdateDeleteFrame ==
    [][(last'.op \in {"repo_update_text", "repo_delete_text"} /\ now' = now) =>
          LET target == IdsByObjectId(members, last'.text)
          IN  /\ DOMAIN members' \subseteq DOMAIN members
              /\ \A i \in DOMAIN members \ target :
                    i \in DOMAIN members' /\ members'[i] = members[i]
              /\ <<attendance, events, users>>' = <<attendance, events, users>>
              /\ last'.op = "repo_update_text" =>
                    \A i \in target :
                        /\ i \in DOMAIN members'
                        /\ members'[i].created_at = members[i].created_at
              /\ target = {} =>
                    /\ members' = members
                    /\ last'.err = NoError
                    /\ last'.op = "repo_update_text" => last'.res = None
                    /\ last'.op = "repo_delete_text" => last'.res = FALSE]_vars

============================================================================
